---- MODULE Spec2Model ----
(***************************************************************************)
(* Model of the Warframe Market Tracker renderer script: the two TTL       *)
(* response caches (WarframeMarketAPI, WarframeAlertsAPI) and the          *)
(* WarframeMarketApp operations built on them.                             *)
(*                                                                         *)
(* Time is Date.now() in milliseconds.  One action is one macrotask of the *)
(* event loop: an event handler, a timer callback or a network response,   *)
(* together with every promise continuation it runs before the event loop  *)
(* regains control.                                                        *)
(***************************************************************************)
EXTENDS Integers, Sequences, FiniteSets, TLC

VARIABLES
    now,            \* Date.now()
    cache,          \* cache[a] : the Map  url -> {data, timestamp}  of API object a
    calls,          \* fetchWithCache calls suspended at  await fetch(...), oldest first
    lastRet,        \* history: how the fetchWithCache call of this macrotask ended
    served,         \* history: the <<api, url, data>> of every 2xx response
    searchInput,    \* searchInput.value
    suggestions,    \* items listed in the suggestions container
    panels,         \* which of welcome / loading / results / error is visible
    errorMessage,   \* text of #errorMessage
    currentItem,    \* this.currentItem
    currentOrders,  \* this.currentOrders
    orderFilter,    \* this.orderFilter
    itemNameEl,     \* itemNameEl.textContent
    ordersTable,    \* rows of #ordersTableBody
    recentSearches, \* this.recentSearches
    localStorage,   \* localStorage['recentSearches']
    currentMainTab, \* this.currentMainTab
    intervals,      \* live setInterval timers: id -> callback and due time
    alertsRefreshInterval,  \* this.alertsRefreshInterval
    timerUpdateInterval,    \* this.timerUpdateInterval
    timeouts,       \* due times of the pending setTimeout callbacks of updateTimers
    pendingRefresh, \* this.pendingRefresh
    lastRefresh,    \* this.lastRefresh
    cycleTimers,    \* this.cycleTimers
    alertTimers,    \* this.alertTimers
    fissureTimers,  \* this.fissureTimers
    currentWorldState,      \* this.currentWorldState
    fissuresCard,   \* the Void Fissures activity card: absent, collapsed, expanded
    alertsLoading,  \* the alertsLoading indicator is shown
    cyclesContainer,        \* what cyclesContainer shows: empty, cycles, error
    cycleEls,       \* the #timer-<cycle> elements: cycle name -> text and classes
    alertEls,       \* the #alert-<i>-timer elements and their cards
    alertCards,     \* the texts of the alert cards: type, location, faction, level
    fissureEls,     \* the #fissure-<i>-timer elements and their items
    expiredWrites,  \* history: the elements this macrotask's tick wrote as expired
    rewardText,     \* an invasion reward as received and the text shown for it
    timerText       \* a number of seconds and the countdown text shown for it

cacheVars == <<now, cache, calls, lastRet, served>>
marketVars ==
    <<searchInput, suggestions, panels, errorMessage, currentItem,
      currentOrders, orderFilter, itemNameEl, ordersTable, recentSearches,
      localStorage>>
alertsVars ==
    <<currentMainTab, intervals, alertsRefreshInterval, timerUpdateInterval,
      timeouts, pendingRefresh, lastRefresh, cycleTimers, alertTimers,
      fissureTimers, currentWorldState, fissuresCard, alertsLoading,
      cyclesContainer, cycleEls, alertEls, alertCards, fissureEls,
      expiredWrites>>
textVars == <<rewardText, timerText>>
vars == <<cacheVars, marketVars, alertsVars, textVars>>

(***************************************************************************)
(* Bounds                                                                  *)
(***************************************************************************)
MaxCalls == 2           \* fetches that may be in flight together
MaxCacheSteps == 3      \* clock steps (half a TTL each) of the cache specification
MaxMarketSteps == 1     \* clock steps of MarketStep ms taken by the market specification
MaxMarketCalls == 1     \* fetches in flight together in the market specification
MaxOrders == 3          \* orders in an order book of the orders specification
MaxLongOrders == 12     \* orders of a side in the long order books
MaxSeconds == 68        \* seconds of clock time covered by the alerts specification
MaxLatencyTicks == 1    \* ticks a world-state fetch may stay unanswered


(***************************************************************************)
(* Optional values: <<>> is undefined/null, <<x>> is x                     *)
(***************************************************************************)
Nothing == << >>
Some(x) == <<x>>
IsSome(o) == Len(o) = 1
Val(o) == o[1]

(***************************************************************************)
(* Upstream data                                                           *)
(***************************************************************************)
ItemsUrl == <<"items">>
OrdersUrl(urlName) == <<"items", urlName, "orders">>
WorldStateUrl == <<"pc">>

RawItem(iname, uname) == [item_name |-> iname, url_name |-> uname]

ItemAb == RawItem(<<"A", "b">>, <<"a", "b">>)
ItemAbc == RawItem(<<"A", "b", "c">>, <<"a", "b", "c">>)

\* response.payload.items of GET /items
Catalogs == { <<ItemAb>>, <<ItemAbc, ItemAb>> }

\* an order of response.payload.orders, with the fields displayOrders reads
ListedOrder(status, type, plat, quantity) ==
    [user |-> [status |-> status], order_type |-> type, platinum |-> plat,
     quantity |-> quantity]

RawOrder(status, type, plat) == ListedOrder(status, type, plat, 1)

\* response.payload.orders of GET /items/{url_name}/orders
OrderLists ==
    { << >>,
      <<RawOrder("online", "sell", 50), RawOrder("ingame", "sell", 60)>> }

\* world-state documents of GET /pc.  A cycle carries its state string, the
\* boolean the code reads for it (isDay, isWarm, isCorpus) and its expiry
\* instant; alerts and fissures carry their expiry instants.
Cycle(state, flag, expiry) == [state |-> state, flag |-> flag, expiry |-> expiry]
RawAlert(expiry) == [expiry |-> expiry]
RawFissure(tier, expiry) ==
    [tier |-> tier, expiry |-> expiry, active |-> TRUE, expired |-> FALSE]

SoonCycle == 3000       \* expiry instants (ms) the server puts into documents
SoonAlert == 4000
SoonFissure == 5000
Later == 100000
Far == 500000
Remote == 8000000       \* more than 7200 seconds ahead

WorldStateA ==
    [cycles |-> [n \in {"Earth", "Cambion Drift"} |->
                    IF n = "Earth" THEN Cycle("day", TRUE, Some(SoonCycle))
                    ELSE Cycle("fass", FALSE, Some(Remote))],
     alerts |-> <<RawAlert(Some(SoonAlert)), RawAlert(Some(Far))>>,
     fissures |-> <<RawFissure("Meso", Some(Far)), RawFissure("Lith", Some(SoonFissure))>>]

WorldStateB ==
    [cycles |-> [n \in {"Earth", "Cambion Drift"} |->
                    IF n = "Earth" THEN Cycle("night", FALSE, Some(Later))
                    ELSE Cycle("fass", FALSE, Some(Far))],
     alerts |-> << >>,
     fissures |-> << >>]

WorldStates == {WorldStateA, WorldStateB}

Apis == {"api", "alertsAPI"}

UrlsOf(a) ==
    IF a = "api"
    THEN {ItemsUrl} \cup { OrdersUrl(i.url_name) : i \in {ItemAb, ItemAbc} }
    ELSE {WorldStateUrl}

\* what the server may answer to a request for url
Payloads(url) ==
    IF url = ItemsUrl THEN Catalogs
    ELSE IF url = WorldStateUrl THEN WorldStates
    ELSE OrderLists

(***************************************************************************)
(* The TTL caches                                                          *)
(***************************************************************************)
MarketCacheTimeout == 300000
AlertsCacheTimeout == 60000

cacheTimeout(a) == IF a = "api" THEN MarketCacheTimeout ELSE AlertsCacheTimeout

\* const cached = this.cache.get(url)
CacheGet(s, a, url) ==
    IF url \in DOMAIN s.cache[a] THEN Some(s.cache[a][url]) ELSE Nothing

\* variants of the freshness test: comparison inverted, TTL not checked
IsFresh_Inverted(cached, t, a) ==
    IsSome(cached) /\ (t - Val(cached).timestamp) > cacheTimeout(a)

IsFresh_NoTtl(cached, t, a) == IsSome(cached)

\* cached && (now - cached.timestamp) < this.cacheTimeout
IsFresh(cached, t, a) ==
    IsSome(cached) /\ (t - Val(cached).timestamp) < cacheTimeout(a)

\* variant of the store: an existing entry is kept
CacheSet_KeepFirst(c, a, url, data, t) ==
    [c EXCEPT ![a] =
        [u \in (DOMAIN c[a]) \cup {url} |->
            IF u \in DOMAIN c[a] THEN c[a][u]
            ELSE [data |-> data, timestamp |-> t]]]

\* this.cache.set(url, { data, timestamp: now })
CacheSet(c, a, url, data, t) ==
    [c EXCEPT ![a] =
        [u \in (DOMAIN c[a]) \cup {url} |->
            IF u = url THEN [data |-> data, timestamp |-> t] ELSE c[a][u]]]

\* the catch block of fetchWithCache: the market API falls back to the entry
\* read at the start of the call, the alerts API always rethrows
FallsBackToCache(a, cached) == a = "api" /\ IsSome(cached)

\* kind: "hit" (fresh entry returned), "fresh" (network data returned),
\* "stale" (entry returned after a failed fetch), "throw" (error raised);
\* now, cached: what the call read when it started; data: what it returned;
\* net: what the network delivered to it
\* owner: the operation that made the call
NoRet ==
    [kind |-> "none", api |-> "api", url |-> ItemsUrl, now |-> 0,
     cached |-> Nothing, data |-> Nothing, net |-> Nothing,
     owner |-> "none"]

Ret(kind, a, url, t, cached, data, owner) ==
    [kind |-> kind, api |-> a, url |-> url, now |-> t,
     cached |-> cached, data |-> data, net |-> Nothing, owner |-> owner]

\* the model holds at most MaxCalls suspended calls
WithinCalls(s) == Len(s.calls) <= MaxCalls

RemoveAt(q, i) == [j \in 1..(Len(q) - 1) |-> IF j < i THEN q[j] ELSE q[j + 1]]

\* fetchWithCache up to its first return or await: a fresh entry is returned
\* at once (lines 15-20 / 89-95), otherwise fetch(url) is issued and the call
\* suspends holding the  now  and  cached  it read
FetchHit(s, a, url) == IsFresh(CacheGet(s, a, url), s.now, a)

FetchReturnCached(s, a, url, owner) ==
    LET cached == CacheGet(s, a, url) IN
    [s EXCEPT
        !.lastRet = Ret("hit", a, url, s.now, cached,
                        Some(Val(cached).data), owner)]

FetchIssue(s, a, url, owner, arg) ==
    [s EXCEPT
        !.calls = Append(@,
            [api |-> a, url |-> url, now |-> s.now,
             cached |-> CacheGet(s, a, url), owner |-> owner, arg |-> arg]),
        !.lastRet = NoRet]

\* response.ok: store {data, timestamp: now} under the call's own  now  and
\* return the data (lines 36-38 / 113-116)
FetchSucceed(s, c, data) ==
    LET call == s.calls[c] IN
    [s EXCEPT
        !.cache = CacheSet(s.cache, call.api, call.url, data, call.now),
        !.calls = RemoveAt(@, c),
        !.lastRet = Ret("fresh", call.api, call.url, call.now,
                        call.cached, Some(data), call.owner)]

\* !response.ok or a rejected fetch: the catch block (lines 39-50 / 117-120)
FetchFailed(s, c) ==
    LET call == s.calls[c] IN
    [s EXCEPT
        !.calls = RemoveAt(@, c),
        !.lastRet =
            IF FallsBackToCache(call.api, call.cached)
            THEN Ret("stale", call.api, call.url, call.now,
                     call.cached, Some(Val(call.cached).data), call.owner)
            ELSE Ret("throw", call.api, call.url, call.now,
                     call.cached, Nothing, call.owner)]

(***************************************************************************)
(* Strings are sequences of characters                                     *)
(***************************************************************************)
Min(S) == CHOOSE x \in S : \A y \in S : x <= y
Max(S) == CHOOSE x \in S : \A y \in S : x >= y

\* String.prototype.toLowerCase on the characters the model uses
ToLower(ch) ==
    CASE ch = "A" -> "a" [] ch = "B" -> "b" [] ch = "C" -> "c" [] OTHER -> ch

Lower(str) == [i \in DOMAIN str |-> ToLower(str[i])]

\* String.prototype.includes
Includes(str, sub) ==
    \E i \in 0..(Len(str) - Len(sub)) : SubSeq(str, i + 1, i + Len(sub)) = sub

\* String.prototype.trim
Trim(str) ==
    LET inked == { i \in DOMAIN str : str[i] # " " }
    IN IF inked = {} THEN << >> ELSE SubSeq(str, Min(inked), Max(inked))

\* Array.prototype.filter and slice(0, n)
FilterSeq(q, Test(_)) ==
    LET f[i \in 0..Len(q)] ==
            IF i = 0 THEN << >>
            ELSE IF Test(q[i]) THEN Append(f[i - 1], q[i]) ELSE f[i - 1]
    IN f[Len(q)]

\* variant of slice(0, n): the last n elements
Take_FromEnd(q, n) ==
    SubSeq(q, IF Len(q) < n THEN 1 ELSE Len(q) - n + 1, Len(q))

Take(q, n) == SubSeq(q, 1, IF Len(q) < n THEN Len(q) ELSE n)

\* Array.prototype.sort(compare): stable; x is placed behind every element
\* that does not compare greater than it
StableSort(q, Compare(_, _)) ==
    LET Insert(sorted, x) ==
            LET later == { j \in DOMAIN sorted : Compare(sorted[j], x) > 0 }
                p == IF later = {} THEN Len(sorted) + 1 ELSE Min(later)
            IN SubSeq(sorted, 1, p - 1) \o <<x>> \o SubSeq(sorted, p, Len(sorted))
        f[i \in 0..Len(q)] ==
            IF i = 0 THEN << >> ELSE Insert(f[i - 1], q[i])
    IN f[Len(q)]

(***************************************************************************)
(* WarframeMarketApp: the market tab                                       *)
(***************************************************************************)
SuggestionCap == 10     \* searchItems: .slice(0, 10)
OrdersPerSide == 10     \* displayOrders: .slice(0, 10)
RecentCap == 5          \* addToRecentSearches: .slice(0, 5)
MinSuggestLen == 2      \* handleSearchInput: query.length < 2

MsgEnterName == <<"Please enter an item name">>
MsgNoItems == <<"No items found matching your search">>
MsgConnectionFailed == <<"Connection failed">>
MsgFailedToLoad(item) == <<"Failed to load data for", item.item_name>>

Panels(w, l, r, e) == [welcome |-> w, loading |-> l, results |-> r, error |-> e]

\* hideResults()
OnlyWelcome == Panels(TRUE, FALSE, FALSE, FALSE)

HideResults(s) == [s EXCEPT !.panels = OnlyWelcome]

\* showLoading()
ShowLoading(s) == [s EXCEPT !.panels = Panels(FALSE, TRUE, FALSE, FALSE)]

\* showResults()
ShowResults(s) == [s EXCEPT !.panels = Panels(FALSE, FALSE, TRUE, FALSE)]

\* variant of showError(message): the results container keeps its class
ShowError_KeepsResults(s, message) ==
    [s EXCEPT !.panels = Panels(FALSE, FALSE, @.results, TRUE),
              !.errorMessage = message]

\* showError(message)
ShowError(s, message) ==
    [s EXCEPT !.panels = Panels(FALSE, FALSE, FALSE, TRUE),
              !.errorMessage = message]

\* hideSuggestions()
HideSuggestions(s) == [s EXCEPT !.suggestions = << >>]

\* showSuggestions(items)
ShowSuggestions(s, items) == [s EXCEPT !.suggestions = items]

\* sortWithPriority(a, b, isAscending)
StatusPriority(status) ==
    CASE status = "ingame" -> 3
      [] status = "online" -> 2
      [] status = "offline" -> 1
      [] OTHER -> 0

\* variant of sortWithPriority: the price decides, the status breaks ties
SortWithPriority_PriceFirst(a, b, isAscending) ==
    LET byPrice == IF isAscending THEN a.platinum - b.platinum
                   ELSE b.platinum - a.platinum
    IN IF byPrice # 0 THEN byPrice
       ELSE StatusPriority(b.user.status) - StatusPriority(a.user.status)

\* variant of sortWithPriority: the price ascends for either side
SortWithPriority_AlwaysAscending(a, b, isAscending) ==
    LET aPriority == StatusPriority(a.user.status)
        bPriority == StatusPriority(b.user.status)
    IN IF aPriority # bPriority THEN bPriority - aPriority
       ELSE a.platinum - b.platinum

\* variant of sortWithPriority: orders equal in status and price are ranked
\* by quantity, the larger first
SortWithPriority_TieByQuantity(a, b, isAscending) ==
    LET aPriority == StatusPriority(a.user.status)
        bPriority == StatusPriority(b.user.status)
        byPrice == IF isAscending THEN a.platinum - b.platinum
                   ELSE b.platinum - a.platinum
    IN IF aPriority # bPriority THEN bPriority - aPriority
       ELSE IF byPrice # 0 THEN byPrice
       ELSE b.quantity - a.quantity

SortWithPriority(a, b, isAscending) ==
    LET aPriority == StatusPriority(a.user.status)
        bPriority == StatusPriority(b.user.status)
    IN IF aPriority # bPriority THEN bPriority - aPriority
       ELSE IF isAscending THEN a.platinum - b.platinum
       ELSE b.platinum - a.platinum

\* variant of the status filter of displayOrders: every order passes
IsOnlineOrder_Any(order) == TRUE

\* the status filter of displayOrders
IsOnlineOrder(order) ==
    order.user.status = "ingame" \/ order.user.status = "online"

\* displayOrders(orders, null): the rows written to #ordersTableBody
DisplayOrders(orders, filter) ==
    LET IsOnline(o) == IsOnlineOrder(o)
        IsBuy(o) == o.order_type = "buy"
        IsSell(o) == o.order_type = "sell"
        online == FilterSeq(orders, IsOnline)
        filtered == IF filter = "buy" THEN FilterSeq(online, IsBuy)
                    ELSE IF filter = "sell" THEN FilterSeq(online, IsSell)
                    ELSE online
        Descending(a, b) == SortWithPriority(a, b, FALSE)
        Ascending(a, b) == SortWithPriority(a, b, TRUE)
        buyOrders == StableSort(FilterSeq(filtered, IsBuy), Descending)
        sellOrders == StableSort(FilterSeq(filtered, IsSell), Ascending)
    IN IF Len(orders) = 0 THEN << >>
       ELSE Take(sellOrders, OrdersPerSide) \o Take(buyOrders, OrdersPerSide)

\* displayItemData(item, orders); the price summary and the statistics
\* labels are functions of  orders  and carry no state of their own
DisplayItemData(s, item, orders) ==
    [s EXCEPT !.itemNameEl = item.item_name,
              !.currentOrders = Some(orders),
              !.ordersTable = DisplayOrders(orders, s.orderFilter)]

\* variant of handleFilterToggle(): the filters array lacks 'buy'
HandleFilterToggle_SkipsBuy(s) ==
    LET next == CASE s.orderFilter = "all" -> "sell"
                  [] OTHER -> "all"
        s1 == [s EXCEPT !.orderFilter = next]
    IN IF IsSome(s1.currentOrders)
       THEN [s1 EXCEPT !.ordersTable =
                          DisplayOrders(Val(s1.currentOrders), next)]
       ELSE s1

\* handleFilterToggle(): all -> sell -> buy -> all; the button label follows
\* orderFilter and carries no state of its own
HandleFilterToggle(s) ==
    LET next == CASE s.orderFilter = "all" -> "sell"
                  [] s.orderFilter = "sell" -> "buy"
                  [] OTHER -> "all"
        s1 == [s EXCEPT !.orderFilter = next]
    IN IF IsSome(s1.currentOrders)
       THEN [s1 EXCEPT !.ordersTable =
                          DisplayOrders(Val(s1.currentOrders), next)]
       ELSE s1

\* JSON.stringify of a list of items: the text of an array of objects, each
\* the sequence of its members, a key and a string value
JSONStringify(list) ==
    [i \in DOMAIN list |->
        << <<"item_name", list[i].item_name>>,
           <<"url_name", list[i].url_name>> >>]

\* the value of member key of the object text obj
MemberOf(obj, key) ==
    obj[CHOOSE k \in DOMAIN obj : obj[k][1] = key][2]

\* JSON.parse of the text of a list of items
JSONParse(text) ==
    [i \in DOMAIN text |->
        RawItem(MemberOf(text[i], "item_name"), MemberOf(text[i], "url_name"))]

\* localStorage.getItem('recentSearches') || '[]'
StoredOrEmpty(storage) ==
    IF IsSome(storage) THEN Val(storage) ELSE JSONStringify(<< >>)

\* variant of addToRecentSearches: an item already in the list is not removed
AddToRecentSearches_KeepsOld(s, item) ==
    LET list == Take(<<item>> \o s.recentSearches, RecentCap)
    IN [s EXCEPT !.recentSearches = list,
                 !.localStorage = Some(JSONStringify(list))]

\* addToRecentSearches(item)
AddToRecentSearches(s, item) ==
    LET Other(search) == search.url_name # item.url_name
        list == Take(<<item>> \o FilterSeq(s.recentSearches, Other), RecentCap)
    IN [s EXCEPT !.recentSearches = list,
                 !.localStorage = Some(JSONStringify(list))]

\* variant of loadItemData(item) from the await on: the catch block does
\* not show the error panel
LoadItemDataResume_SilentFailure(s, item) ==
    IF s.lastRet.kind = "throw"
    THEN s
    ELSE ShowResults(
            AddToRecentSearches(
                DisplayItemData(s, item, Val(s.lastRet.data)), item))

\* loadItemData(item) from  await this.api.getItemOrders(...)  on; the
\* outcome of the fetch is s.lastRet
LoadItemDataResume(s, item) ==
    IF s.lastRet.kind = "throw"
    THEN ShowError(s, MsgFailedToLoad(item))
    ELSE ShowResults(
            AddToRecentSearches(
                DisplayItemData(s, item, Val(s.lastRet.data)), item))

\* loadItemData(item)
LoadItemData(s, item) ==
    LET s1 == ShowLoading([s EXCEPT !.currentItem = Some(item)])
        url == OrdersUrl(item.url_name)
    IN IF FetchHit(s1, "api", url)
       THEN LoadItemDataResume(
                FetchReturnCached(s1, "api", url, "loadItemData"), item)
       ELSE FetchIssue(s1, "api", url, "loadItemData", Some(item))

\* searchItems(query) from  await this.getItems()  on: a failed fetch is
\* caught and turned into an empty list
SearchItemsResume(r, query) ==
    LET Matches(item) ==
            \/ Includes(Lower(item.item_name), Lower(query))
            \/ Includes(Lower(item.url_name), Lower(query))
    IN IF r.kind = "throw" THEN << >>
       ELSE Take(FilterSeq(Val(r.data), Matches), SuggestionCap)

\* handleSearch() from  await this.api.searchItems(query)  on
HandleSearchResume(s, query) ==
    LET items == SearchItemsResume(s.lastRet, query)
        IsExact(item) ==
            \/ Lower(item.item_name) = Lower(query)
            \/ Lower(item.url_name) = Lower(query)
        exact == FilterSeq(items, IsExact)
        selectedItem == IF Len(exact) > 0 THEN exact[1] ELSE items[1]
    IN IF Len(items) = 0 THEN ShowError(s, MsgNoItems)
       ELSE HideSuggestions(LoadItemData(s, selectedItem))

\* handleSearch()
HandleSearch(s) ==
    LET query == Trim(s.searchInput)
        s1 == ShowLoading(s)
    IN IF Len(query) = 0 THEN ShowError(s, MsgEnterName)
       ELSE IF FetchHit(s1, "api", ItemsUrl)
       THEN HandleSearchResume(
                FetchReturnCached(s1, "api", ItemsUrl, "handleSearch"), query)
       ELSE FetchIssue(s1, "api", ItemsUrl, "handleSearch", Some(query))

\* handleSearchInput(e) from  await this.api.searchItems(query)  on
HandleSearchInputResume(s, query) ==
    ShowSuggestions(s, SearchItemsResume(s.lastRet, query))

\* handleSearchInput(e) for the text the user has typed
HandleSearchInput(s, text) ==
    LET query == Trim(text)
        s1 == [s EXCEPT !.searchInput = text]
    IN IF Len(query) < MinSuggestLen THEN HideSuggestions(s1)
       ELSE IF FetchHit(s1, "api", ItemsUrl)
       THEN HandleSearchInputResume(
                FetchReturnCached(s1, "api", ItemsUrl, "handleSearchInput"),
                query)
       ELSE FetchIssue(s1, "api", ItemsUrl, "handleSearchInput", Some(query))

\* the document's click listener, for a click outside the search box and
\* the suggestions
DocumentClick(s) == HideSuggestions(s)

\* the click listener of a suggestion, which hides the suggestions itself,
\* and of a recent search, after which the document's listener hides them
SelectItem(s, item) ==
    LoadItemData(HideSuggestions([s EXCEPT !.searchInput = item.item_name]),
                 RawItem(item.item_name, item.url_name))

\* handleRetry()
HandleRetry(s) ==
    IF IsSome(s.currentItem) THEN LoadItemData(s, Val(s.currentItem))
    ELSE HandleSearch(s)

(***************************************************************************)
(* WarframeMarketApp: the alerts tab                                       *)
(***************************************************************************)
TickPeriod == 1000          \* startTimerUpdates: setInterval(..., 1000)
RefreshPeriod == 60000      \* startAlertsRefresh: setInterval(..., 60000)
RefreshDelay == 15000       \* updateTimers: setTimeout(..., 15000)
Tolerance == 120            \* displayCycles: 2 minute tolerance
AlertCap == 8               \* displayAlerts: alerts.slice(0, 8)

\* Map.prototype.set and the maps' key sets
MapSet(m, k, v) == [x \in (DOMAIN m) \cup {k} |-> IF x = k THEN v ELSE m[x]]
MapDel(m, k) == [x \in (DOMAIN m) \ {k} |-> m[x]]

Abs(x) == IF x < 0 THEN -x ELSE x

\* variant of the remaining time: Math.max(0, ...) is left out
TimeLeft_Signed(expiryTime, t) == (expiryTime - t) \div 1000

\* Math.max(0, Math.floor((expiryTime - now) / 1000))
TimeLeft(expiryTime, t) ==
    IF (expiryTime - t) \div 1000 < 0 THEN 0 ELSE (expiryTime - t) \div 1000

\* setInterval(callback, period): a new live timer under an unused id
NewId(s) == Min({ i \in 1..(Cardinality(DOMAIN s.intervals) + 1) :
                    i \notin DOMAIN s.intervals })

\* stopTimerUpdates()
StopTimerUpdates(s) ==
    IF IsSome(s.timerUpdateInterval)
    THEN [s EXCEPT !.intervals = MapDel(@, Val(s.timerUpdateInterval)),
                   !.timerUpdateInterval = Nothing]
    ELSE s

\* startTimerUpdates()
StartTimerUpdates(s) ==
    LET s1 == StopTimerUpdates(s) IN
    [s1 EXCEPT
        !.intervals = MapSet(@, NewId(s1),
                             [callback |-> "updateTimers",
                              due |-> s1.now + TickPeriod]),
        !.timerUpdateInterval = Some(NewId(s1))]

\* stopAlertsRefresh()
StopAlertsRefresh(s) ==
    IF IsSome(s.alertsRefreshInterval)
    THEN [s EXCEPT !.intervals = MapDel(@, Val(s.alertsRefreshInterval)),
                   !.alertsRefreshInterval = Nothing]
    ELSE s

\* startAlertsRefresh()
StartAlertsRefresh(s) ==
    LET s1 == StopAlertsRefresh(s) IN
    [s1 EXCEPT
        !.intervals = MapSet(@, NewId(s1),
                             [callback |-> "refreshCheck",
                              due |-> s1.now + RefreshPeriod]),
        !.alertsRefreshInterval = Some(NewId(s1))]

\* the isDay value displayCycles derives for a cycle
IsDayOf(name, data) ==
    IF name = "Cambion Drift" THEN "state" \in DOMAIN data /\ data.state = "fass"
    ELSE data.flag

\* the remaining time displayCycles computes from the expiry timestamp
CycleSeconds(data, t) ==
    IF IsSome(data.expiry) THEN TimeLeft(Val(data.expiry), t) ELSE 0

\* variant of shouldUpdateTimer: an existing timer of the same state is
\* never rewritten, however far it has drifted
ShouldUpdateTimer_IgnoresDrift(timers, name, state, isDay, timeInSeconds) ==
    \/ name \notin DOMAIN timers
    \/ timers[name].state # state
    \/ timers[name].isDay # isDay

\* variant of shouldUpdateTimer: the state and isDay tests are left out
ShouldUpdateTimer_NoStateTest(timers, name, state, isDay, timeInSeconds) ==
    \/ name \notin DOMAIN timers
    \/ Abs(timers[name].seconds - timeInSeconds) > Tolerance

\* variant of shouldUpdateTimer: the tolerance test is left out
ShouldUpdateTimer_NoTolerance(timers, name, state, isDay, timeInSeconds) ==
    \/ name \notin DOMAIN timers
    \/ timers[name].state # state
    \/ timers[name].isDay # isDay
    \/ timers[name].seconds # timeInSeconds

\* shouldUpdateTimer in displayCycles
ShouldUpdateTimer(timers, name, state, isDay, timeInSeconds) ==
    \/ name \notin DOMAIN timers
    \/ timers[name].state # state
    \/ timers[name].isDay # isDay
    \/ Abs(timers[name].seconds - timeInSeconds) > Tolerance

\* a text node: the fixed texts carry no time; a formatted time is kept as
\* its hour, minute and second parts
Text(label) == [label |-> label, h |-> 0, m |-> 0, s |-> 0]

\* formatTimeFromSeconds(seconds): "<h>h <m>m <s>s" without the parts
\* that are 0, and 'Expired' for no time left
FormatTimeFromSeconds(seconds) ==
    IF seconds <= 0 THEN Text("Expired")
    ELSE [label |-> "time", h |-> seconds \div 3600,
          m |-> (seconds % 3600) \div 60, s |-> seconds % 60]

\* a timer element as the templates render it: its text, its 'warning'
\* class, and the 'expiring-soon' and 'expired' classes of its card
Element(text, expiringSoon) ==
    [text |-> text, warning |-> FALSE, expiringSoon |-> expiringSoon,
     expired |-> FALSE]

\* displayTime of displayAlerts and displayFissureDetails
DisplayTime(timeLeft) ==
    IF timeLeft > 0 THEN FormatTimeFromSeconds(timeLeft) ELSE Text("Expired")

\* the cycles of displayCycles, in the order the cards are made
CycleOrder == <<"Earth", "Cetus", "Vallis", "Cambion Drift", "Zariman">>

CycleIndex(name) == CHOOSE i \in DOMAIN CycleOrder : CycleOrder[i] = name

\* cycle.data.state, "undefined" for a cycle without the field
StateOf(data) == IF "state" \in DOMAIN data THEN data.state ELSE "undefined"

\* the cycles for which  formatCycleState(cycle.name, state).toUpperCase()
\* throws a TypeError: formatCycleState returns the state as it is for each
\* of the five names
CyclesThatThrow(ws) ==
    { name \in DOMAIN ws.cycles : StateOf(ws.cycles[name]) = "undefined" }

DisplayCyclesThrows(ws) == CyclesThatThrow(ws) # {}

\* the cycles whose card displayCycles starts to make: all that the
\* document has, up to the first that throws
CyclesReached(ws) ==
    { name \in DOMAIN ws.cycles :
        \A other \in CyclesThatThrow(ws) :
            CycleIndex(name) <= CycleIndex(other) }

\* displayCycles(worldState): a card sets its timer before its text is
\* made; cyclesContainer.innerHTML is assigned when no card has thrown
DisplayCycles(s, ws) ==
    LET Timer(name) ==
            LET data == ws.cycles[name]
                state == StateOf(data)
                isDay == IsDayOf(name, data)
                timeInSeconds == CycleSeconds(data, s.now)
            IN IF ShouldUpdateTimer(s.cycleTimers, name, state, isDay,
                                    timeInSeconds)
               THEN [seconds |-> timeInSeconds, state |-> state,
                     isDay |-> isDay]
               ELSE s.cycleTimers[name]
        s1 == [s EXCEPT
                  !.cycleTimers =
                      [name \in (DOMAIN s.cycleTimers) \cup CyclesReached(ws) |->
                          IF name \in CyclesReached(ws) THEN Timer(name)
                          ELSE s.cycleTimers[name]]]
    IN IF DisplayCyclesThrows(ws) THEN s1
       ELSE [s1 EXCEPT
                !.cyclesContainer = "cycles",
                !.cycleEls =
                    [name \in DOMAIN ws.cycles |->
                        Element(FormatTimeFromSeconds(Timer(name).seconds),
                                FALSE)]]

\* the timeLeft displayAlerts and displayFissureDetails compute
ExpirySeconds(expiry, t) ==
    IF IsSome(expiry) THEN TimeLeft(Val(expiry), t) ELSE 0

\* worldState.alerts || []  and  worldState.fissures || []
AlertsOf(ws) == IF "alerts" \in DOMAIN ws THEN ws.alerts ELSE << >>
FissuresOf(ws) == IF "fissures" \in DOMAIN ws THEN ws.fissures ELSE << >>

SolNodePrefix == <<"S", "o", "l", "N", "o", "d", "e">>

Digits == <<"0", "1", "2", "3", "4", "5", "6", "7", "8", "9">>

IsDigit(ch) == \E d \in DOMAIN Digits : Digits[d] = ch
DigitValue(ch) == (CHOOSE d \in DOMAIN Digits : Digits[d] = ch) - 1

\* String.prototype.startsWith
StartsWith(str, prefix) ==
    Len(str) >= Len(prefix) /\ SubSeq(str, 1, Len(prefix)) = prefix

\* parseInt(str): the value of the leading digits, Nothing for NaN
ParseInt(str) ==
    LET stops == { i \in DOMAIN str : ~IsDigit(str[i]) }
        len == IF stops = {} THEN Len(str) ELSE Min(stops) - 1
        value[i \in 0..len] ==
            IF i = 0 THEN 0 ELSE 10 * value[i - 1] + DigitValue(str[i])
    IN IF len = 0 THEN Nothing ELSE Some(value[len])

\* this.nodeMap: the number of the node code and the name stored for it
NodeEntries ==
    << <<1, "Coba (Earth)">>, <<2, "Mantle (Earth)">>,
       <<3, "Mariana (Earth)">>, <<4, "Pacific (Earth)">>,
       <<5, "Cambria (Earth)">>, <<6, "Lua (Earth)">>,
       <<51, "Venera (Venus)">>, <<52, "Aphrodite (Venus)">>,
       <<53, "Cytherean (Venus)">>, <<54, "Tessera (Venus)">>,
       <<55, "Linea (Venus)">>,
       <<101, "Caloris (Mercury)">>, <<102, "Tolstoj (Mercury)">>,
       <<103, "Beethoven (Mercury)">>,
       <<201, "Olympia (Mars)">>, <<202, "Phobos (Mars)">>,
       <<203, "Deimos (Mars)">>, <<204, "Tharsis (Mars)">>,
       <<205, "Hellas (Mars)">>,
       <<401, "Ceres Station">>, <<451, "Europa Station">>,
       <<501, "Jupiter Station">>, <<551, "Saturn Station">>,
       <<601, "Uranus Station">>, <<651, "Neptune Station">>,
       <<701, "Pluto Station">>, <<801, "Sedna Station">>,
       <<851, "Eris Station">>, <<901, "Void Station">> >>

\* the decimal numeral of n
RECURSIVE Numeral(_)
Numeral(n) ==
    IF n < 10 THEN <<Digits[n + 1]>>
    ELSE Numeral(n \div 10) \o <<Digits[(n % 10) + 1]>>

\* the key 'SolNode<n>'
SolNode(n) == SolNodePrefix \o Numeral(n)

\* this.nodeMap.get(rawNode)
NodeMapGet(rawNode) ==
    LET hits == { e \in DOMAIN NodeEntries :
                    rawNode = SolNode(NodeEntries[e][1]) }
    IN IF hits = {} THEN Nothing
       ELSE Some(<<NodeEntries[CHOOSE e \in hits : TRUE][2]>>)

Planets ==
    <<"Earth", "Venus", "Mercury", "Mars", "Ceres", "Jupiter", "Saturn",
      "Uranus", "Neptune", "Pluto", "Sedna", "Eris", "Void">>

\* variant of the node conversion: the planet index is the number itself
NodeLocation_NoRange(rawNode) ==
    LET found == NodeMapGet(rawNode)
        parsed == ParseInt(SubSeq(rawNode, Len(SolNodePrefix) + 1, Len(rawNode)))
        planet == IF IsSome(parsed) /\ Val(parsed) + 1 \in DOMAIN Planets
                  THEN Planets[Val(parsed) + 1] ELSE "Unknown Planet"
    IN IF IsSome(found) THEN Val(found)
       ELSE IF StartsWith(rawNode, SolNodePrefix)
       THEN rawNode \o <<" (", planet, ")">>
       ELSE rawNode

\* the conversion of a node code to a location name in displayAlerts
NodeLocation(rawNode) ==
    LET found == NodeMapGet(rawNode)
        node == IF IsSome(found) THEN Val(found) ELSE rawNode
        nodeNum == SubSeq(rawNode, Len(SolNodePrefix) + 1, Len(rawNode))
        parsed == ParseInt(nodeNum)
        planetIndex == Val(parsed) \div 50
        planet == IF IsSome(parsed) /\ planetIndex + 1 \in DOMAIN Planets
                  THEN Planets[planetIndex + 1] ELSE "Unknown Planet"
    IN IF StartsWith(node, SolNodePrefix)
       THEN rawNode \o <<" (", planet, ")">>
       ELSE node

\* variant of the mission fields: no fallback text
MissionField_NoFallback(alert, field, fallback) ==
    IF "mission" \in DOMAIN alert /\ field \in DOMAIN alert.mission
    THEN alert.mission[field] ELSE <<"undefined">>

\* alert.mission?.<field> || fallback
MissionField(alert, field, fallback) ==
    IF /\ "mission" \in DOMAIN alert
       /\ field \in DOMAIN alert.mission
       /\ alert.mission[field] # << >>
    THEN alert.mission[field] ELSE fallback

\* the level text: '<min>-<max>' when the mission has both, else 'Unknown'
LevelText(alert) ==
    IF /\ "mission" \in DOMAIN alert
       /\ "minEnemyLevel" \in DOMAIN alert.mission
       /\ "maxEnemyLevel" \in DOMAIN alert.mission
       /\ alert.mission.minEnemyLevel # 0
       /\ alert.mission.maxEnemyLevel # 0
    THEN [label |-> "range", min |-> alert.mission.minEnemyLevel,
          max |-> alert.mission.maxEnemyLevel]
    ELSE [label |-> "Unknown", min |-> 0, max |-> 0]

\* the texts of an alert card
AlertCard(alert) ==
    [type |-> MissionField(alert, "type", <<"Unknown Mission">>),
     location |->
         NodeLocation(MissionField(alert, "node", <<"Unknown Location">>)),
     faction |-> MissionField(alert, "faction", <<"Unknown">>),
     level |-> LevelText(alert)]

\* displayAlerts(worldState): the timers are cleared and set again for the
\* first eight alerts that have time left, keyed by their index
DisplayAlerts(s, ws) ==
    LET shown == Take(AlertsOf(ws), AlertCap)
        tracked == { i \in DOMAIN shown :
                        ExpirySeconds(shown[i].expiry, s.now) > 0 }
    IN [s EXCEPT
           !.alertTimers =
               [k \in { i - 1 : i \in tracked } |->
                   [seconds |-> ExpirySeconds(shown[k + 1].expiry, s.now),
                    expiry |-> Val(shown[k + 1].expiry)]],
           !.alertEls =
               [k \in { i - 1 : i \in DOMAIN shown } |->
                   LET timeLeft == ExpirySeconds(shown[k + 1].expiry, s.now)
                   IN Element(DisplayTime(timeLeft), timeLeft <= 300)],
           !.alertCards = [i \in DOMAIN shown |-> AlertCard(shown[i])]]

TierOrder == <<"Lith", "Meso", "Neo", "Axi", "Requiem", "Omnia">>

TierIndex(tier) ==
    IF \E i \in DOMAIN TierOrder : TierOrder[i] = tier
    THEN (CHOOSE i \in DOMAIN TierOrder : TierOrder[i] = tier) - 1
    ELSE 999

\* the comparator of displayFissureDetails: by tier, then by expiry
CompareFissures(a, b) ==
    IF TierIndex(a.tier) # TierIndex(b.tier)
    THEN TierIndex(a.tier) - TierIndex(b.tier)
    ELSE Val(a.expiry) - Val(b.expiry)

\* displayFissureDetails(container): nothing is touched when the list is
\* empty; otherwise the timers are cleared and set again for the active
\* fissures in display order
DisplayFissureDetails(s) ==
    LET allFissures == FissuresOf(Val(s.currentWorldState))
        IsActive(f) ==
            /\ f.active
            /\ ~f.expired
            /\ IsSome(f.expiry)
            /\ Val(f.expiry) > s.now
        sorted == StableSort(FilterSeq(allFissures, IsActive), CompareFissures)
        tracked == { i \in DOMAIN sorted :
                        ExpirySeconds(sorted[i].expiry, s.now) > 0 }
    IN IF Len(allFissures) = 0 THEN [s EXCEPT !.fissureEls = << >>]
       ELSE [s EXCEPT
                !.fissureTimers =
                    [k \in { i - 1 : i \in tracked } |->
                        [seconds |-> ExpirySeconds(sorted[k + 1].expiry, s.now),
                         expiry |-> Val(sorted[k + 1].expiry)]],
                !.fissureEls =
                    [k \in { i - 1 : i \in DOMAIN sorted } |->
                        Element(DisplayTime(
                                    ExpirySeconds(sorted[k + 1].expiry, s.now)),
                                FALSE)]]

\* loadActivityDetails('fissures', container)
LoadFissureDetails(s) ==
    IF IsSome(s.currentWorldState) THEN DisplayFissureDetails(s) ELSE s

\* displayActivities(worldState): the cards are rendered again, a card that
\* was expanded stays expanded and its details are filled in again
DisplayActivities(s, ws) ==
    LET wasExpanded == s.fissuresCard = "expanded"
        card == IF Len(FissuresOf(ws)) = 0 THEN "absent"
                ELSE IF wasExpanded THEN "expanded" ELSE "collapsed"
        s1 == [s EXCEPT !.currentWorldState = Some(ws), !.fissuresCard = card,
                        !.fissureEls = << >>]
    IN IF card = "expanded" THEN LoadFissureDetails(s1) ELSE s1

\* toggleActivityDetails('fissures')
ToggleFissureDetails(s) ==
    IF s.fissuresCard = "collapsed"
    THEN [LoadFissureDetails(s) EXCEPT !.fissuresCard = "expanded"]
    ELSE [s EXCEPT !.fissuresCard = "collapsed"]

\* variant of showAlertsError: the cycle timers are dropped with their cards
ShowAlertsError_DropsTimers(s) ==
    [s EXCEPT !.cyclesContainer = "error", !.cycleEls = << >>,
              !.cycleTimers = << >>]

\* showAlertsError(message)
ShowAlertsError(s) ==
    [s EXCEPT !.cyclesContainer = "error", !.cycleEls = << >>]

\* variant of loadAlertsData(): the tick interval is started whatever the
\* active tab
LoadAlertsDataResume_NoTabTest(s) ==
    LET ws == Val(s.lastRet.data)
        shown == DisplayActivities(DisplayAlerts(DisplayCycles(s, ws), ws), ws)
        done == IF s.lastRet.kind = "throw" THEN ShowAlertsError(s)
                ELSE IF DisplayCyclesThrows(ws)
                THEN ShowAlertsError(DisplayCycles(s, ws))
                ELSE [StartTimerUpdates(shown) EXCEPT
                         !.lastRefresh = Some(s.now)]
    IN [done EXCEPT !.alertsLoading = FALSE]

\* loadAlertsData() from  await this.alertsAPI.getWorldState()  on
LoadAlertsDataResume(s) ==
    LET ws == Val(s.lastRet.data)
        shown == DisplayActivities(DisplayAlerts(DisplayCycles(s, ws), ws), ws)
        started == IF s.currentMainTab = "alerts"
                   THEN StartTimerUpdates(shown) ELSE shown
        done == IF s.lastRet.kind = "throw" THEN ShowAlertsError(s)
                ELSE IF DisplayCyclesThrows(ws)
                THEN ShowAlertsError(DisplayCycles(s, ws))
                ELSE [started EXCEPT !.lastRefresh = Some(s.now)]
    IN [done EXCEPT !.alertsLoading = FALSE]

\* loadAlertsData() up to  await this.alertsAPI.getWorldState(); trigger
\* records who called it
LoadAlertsDataStart(s, trigger) ==
    LET s1 == [s EXCEPT !.alertsLoading = TRUE] IN
    IF FetchHit(s1, "alertsAPI", WorldStateUrl)
    THEN FetchReturnCached(s1, "alertsAPI", WorldStateUrl, "loadAlertsData")
    ELSE FetchIssue(s1, "alertsAPI", WorldStateUrl, "loadAlertsData",
                    Some(trigger))

\* the promise continuation of a loadAlertsData() call that found a fresh
\* entry runs once its caller has finished
LoadAlertsDataSettle(s) ==
    IF s.lastRet.owner = "loadAlertsData" /\ s.lastRet.kind = "hit"
    THEN LoadAlertsDataResume(s) ELSE s

\* variant of switchMainTab(tabName): the refresh-check interval is left as
\* it is when the alerts tab is opened
SwitchMainTab_KeepsRefreshInterval(s, tabName) ==
    LET s1 == [s EXCEPT !.currentMainTab = tabName] IN
    IF tabName = "alerts"
    THEN LoadAlertsDataSettle(
            StartTimerUpdates(
                IF IsSome(s1.alertsRefreshInterval)
                THEN LoadAlertsDataStart(s1, "switchMainTab")
                ELSE StartAlertsRefresh(
                        LoadAlertsDataStart(s1, "switchMainTab"))))
    ELSE StopTimerUpdates(StopAlertsRefresh(s1))

\* switchMainTab(tabName)
SwitchMainTab(s, tabName) ==
    LET s1 == [s EXCEPT !.currentMainTab = tabName] IN
    IF tabName = "alerts"
    THEN LoadAlertsDataSettle(
            StartTimerUpdates(
                StartAlertsRefresh(LoadAlertsDataStart(s1, "switchMainTab"))))
    ELSE StopTimerUpdates(StopAlertsRefresh(s1))

\* the click handler of refreshAlertsBtn
RefreshAlertsClick(s) ==
    LoadAlertsDataSettle(LoadAlertsDataStart(s, "refreshAlertsBtn"))

\* the callback of startAlertsRefresh's interval
HasActiveTimers(s) ==
    \E name \in DOMAIN s.cycleTimers :
        s.cycleTimers[name].seconds > 0 /\ s.cycleTimers[name].seconds < 7200

ShouldRefresh(s) ==
    \/ ~HasActiveTimers(s)
    \/ s.lastRefresh = Nothing
    \/ (s.now - Val(s.lastRefresh)) > 120000

RefreshCheckCallback(s) ==
    IF ShouldRefresh(s)
    THEN LoadAlertsDataSettle(LoadAlertsDataStart(s, "refreshCheck"))
    ELSE s

\* the timers of all three registries that stand at 0
ExpiredIn(timers) == { k \in DOMAIN timers : timers[k].seconds = 0 }

ExpiredTimers(s) ==
    ({"cycle"} \X ExpiredIn(s.cycleTimers))
        \cup ({"alert"} \X ExpiredIn(s.alertTimers))
        \cup ({"fissure"} \X ExpiredIn(s.fissureTimers))

\* variant of the countdown: a timer at 0 is decremented as well
CountDown_PastZero(timers) ==
    [k \in DOMAIN timers |-> [timers[k] EXCEPT !.seconds = @ - 1]]

\* the forEach loops of updateTimers: timerData.seconds-- while positive
CountDown(timers) ==
    [k \in DOMAIN timers |->
        IF timers[k].seconds > 0 THEN [timers[k] EXCEPT !.seconds = @ - 1]
        ELSE timers[k]]

\* variant of the  seconds === 0  branches: nothing is written
ShowExpired_Nothing(el, isCycle) == el

\* the  else if (timerData.seconds === 0)  branches of updateTimers: what
\* they write to the timer element and its card
ShowExpired(el, isCycle) ==
    IF isCycle
    THEN [el EXCEPT !.text = Text("Cycle changing..."), !.warning = TRUE]
    ELSE [el EXCEPT !.text = Text("Expired"), !.warning = TRUE,
                    !.expired = TRUE]

\* the  if (timerData.seconds > 0)  branches of updateTimers, seconds being
\* the decremented value: the cycle elements have no card to mark
ShowRemaining(el, isCycle, seconds) ==
    [el EXCEPT !.text = FormatTimeFromSeconds(seconds),
               !.warning = seconds <= 300,
               !.expiringSoon = IF isCycle THEN @ ELSE seconds <= 300]

\* the elements after one forEach loop of updateTimers over timers, the
\* values before the loop: a timer whose element is missing writes nothing
TickElements(els, timers, isCycle) ==
    [k \in DOMAIN els |->
        IF k \notin DOMAIN timers THEN els[k]
        ELSE IF timers[k].seconds > 0
             THEN ShowRemaining(els[k], isCycle, timers[k].seconds - 1)
        ELSE IF timers[k].seconds = 0 THEN ShowExpired(els[k], isCycle)
        ELSE els[k]]

\* the elements a loop of updateTimers writes through its  seconds === 0
\* branch
ExpiredWritten(els, timers) == ExpiredIn(timers) \cap DOMAIN els

\* updateTimers()
UpdateTimers(s) ==
    LET s1 == [s EXCEPT !.cycleTimers = CountDown(@),
                        !.alertTimers = CountDown(@),
                        !.fissureTimers = CountDown(@),
                        !.cycleEls = TickElements(@, s.cycleTimers, TRUE),
                        !.alertEls = TickElements(@, s.alertTimers, FALSE),
                        !.fissureEls = TickElements(@, s.fissureTimers, FALSE),
                        !.expiredWrites =
                            ({"cycle"} \X ExpiredWritten(s.cycleEls,
                                                         s.cycleTimers))
                            \cup ({"alert"} \X ExpiredWritten(s.alertEls,
                                                              s.alertTimers))
                            \cup ({"fissure"} \X ExpiredWritten(s.fissureEls,
                                                                s.fissureTimers))]
    IN IF ExpiredTimers(s1) # {} /\ ~s1.pendingRefresh
       THEN [s1 EXCEPT !.pendingRefresh = TRUE,
                       !.timeouts = @ \cup {s1.now + RefreshDelay}]
       ELSE s1

\* variant of the timeout callback: the flag is cleared on the alerts tab
\* only
RefreshTimeoutCallback_FlagKeptOffTab(s) ==
    IF s.currentMainTab = "alerts"
    THEN LoadAlertsDataSettle(
             [LoadAlertsDataStart(s, "expiredTimers") EXCEPT
                 !.pendingRefresh = FALSE])
    ELSE s

\* the callback updateTimers passes to setTimeout
RefreshTimeoutCallback(s) ==
    LET s1 == IF s.currentMainTab = "alerts"
              THEN LoadAlertsDataStart(s, "expiredTimers") ELSE s
    IN LoadAlertsDataSettle([s1 EXCEPT !.pendingRefresh = FALSE])

\* the continuation of the operation that awaits call; the outcome of the
\* fetch is s.lastRet
Resume(s, call) ==
    CASE call.owner = "handleSearch" -> HandleSearchResume(s, Val(call.arg))
      [] call.owner = "handleSearchInput" ->
            HandleSearchInputResume(s, Val(call.arg))
      [] call.owner = "loadItemData" -> LoadItemDataResume(s, Val(call.arg))
      [] call.owner = "loadAlertsData" -> LoadAlertsDataResume(s)
      [] OTHER -> s

(***************************************************************************)
(* State as one record, so that a handler is a function from state to      *)
(* state and handlers compose in program order.  lastRet describes the     *)
(* fetchWithCache return of the current macrotask only.                    *)
(***************************************************************************)
St ==
    [now |-> now, cache |-> cache, calls |-> calls, lastRet |-> NoRet,
     served |-> served, searchInput |-> searchInput,
     suggestions |-> suggestions, panels |-> panels,
     errorMessage |-> errorMessage, currentItem |-> currentItem,
     currentOrders |-> currentOrders, orderFilter |-> orderFilter,
     itemNameEl |-> itemNameEl, ordersTable |-> ordersTable,
     recentSearches |-> recentSearches, localStorage |-> localStorage,
     currentMainTab |-> currentMainTab, intervals |-> intervals,
     alertsRefreshInterval |-> alertsRefreshInterval,
     timerUpdateInterval |-> timerUpdateInterval, timeouts |-> timeouts,
     pendingRefresh |-> pendingRefresh, lastRefresh |-> lastRefresh,
     cycleTimers |-> cycleTimers, alertTimers |-> alertTimers,
     fissureTimers |-> fissureTimers,
     currentWorldState |-> currentWorldState, fissuresCard |-> fissuresCard,
     alertsLoading |-> alertsLoading, cyclesContainer |-> cyclesContainer,
     cycleEls |-> cycleEls, alertEls |-> alertEls, alertCards |-> alertCards,
     fissureEls |-> fissureEls,
     expiredWrites |-> {},
     rewardText |-> rewardText, timerText |-> timerText]

Commit(s) ==
    /\ now' = s.now
    /\ cache' = s.cache
    /\ calls' = s.calls
    /\ lastRet' = s.lastRet
    /\ served' = s.served
    /\ searchInput' = s.searchInput
    /\ suggestions' = s.suggestions
    /\ panels' = s.panels
    /\ errorMessage' = s.errorMessage
    /\ currentItem' = s.currentItem
    /\ currentOrders' = s.currentOrders
    /\ orderFilter' = s.orderFilter
    /\ itemNameEl' = s.itemNameEl
    /\ ordersTable' = s.ordersTable
    /\ recentSearches' = s.recentSearches
    /\ localStorage' = s.localStorage
    /\ currentMainTab' = s.currentMainTab
    /\ intervals' = s.intervals
    /\ alertsRefreshInterval' = s.alertsRefreshInterval
    /\ timerUpdateInterval' = s.timerUpdateInterval
    /\ timeouts' = s.timeouts
    /\ pendingRefresh' = s.pendingRefresh
    /\ lastRefresh' = s.lastRefresh
    /\ cycleTimers' = s.cycleTimers
    /\ alertTimers' = s.alertTimers
    /\ fissureTimers' = s.fissureTimers
    /\ currentWorldState' = s.currentWorldState
    /\ fissuresCard' = s.fissuresCard
    /\ alertsLoading' = s.alertsLoading
    /\ cyclesContainer' = s.cyclesContainer
    /\ cycleEls' = s.cycleEls
    /\ alertEls' = s.alertEls
    /\ alertCards' = s.alertCards
    /\ fissureEls' = s.fissureEls
    /\ expiredWrites' = s.expiredWrites
    /\ rewardText' = s.rewardText
    /\ timerText' = s.timerText

Constructed(storage) ==
    /\ now = 0
    /\ cache = [a \in Apis |-> << >>]
    /\ calls = << >>
    /\ lastRet = NoRet
    /\ served = {}
    /\ searchInput = << >>
    /\ suggestions = << >>
    /\ panels = OnlyWelcome
    /\ errorMessage = << >>
    /\ currentItem = Nothing
    /\ currentOrders = Nothing
    /\ orderFilter = "all"
    /\ itemNameEl = << >>
    /\ ordersTable = << >>
    /\ localStorage = storage
    /\ recentSearches = JSONParse(StoredOrEmpty(localStorage))
    /\ currentMainTab = "market"
    /\ intervals = << >>
    /\ alertsRefreshInterval = Nothing
    /\ timerUpdateInterval = Nothing
    /\ timeouts = {}
    /\ pendingRefresh = FALSE
    /\ lastRefresh = Nothing
    /\ cycleTimers = << >>
    /\ alertTimers = << >>
    /\ fissureTimers = << >>
    /\ currentWorldState = Nothing
    /\ fissuresCard = "absent"
    /\ alertsLoading = FALSE
    /\ cyclesContainer = "empty"
    /\ cycleEls = << >>
    /\ alertEls = << >>
    /\ alertCards = << >>
    /\ fissureEls = << >>
    /\ expiredWrites = {}
    /\ rewardText = Nothing
    /\ timerText = Nothing

\* the first start: nothing is stored yet
Init == Constructed(Nothing)

\* the 2xx response body that the network hands to call c
Deliver(s, c, data) ==
    [s EXCEPT !.served = @ \cup {<<s.calls[c].api, s.calls[c].url, data>>}]

Delivered(s, data) == [s EXCEPT !.lastRet.net = Some(data)]

(***************************************************************************)
(* The cache specification: callers that only want the data.  The two API  *)
(* objects share no state; a behaviour here uses one of them.              *)
(***************************************************************************)
OnlyApiInUse(a) ==
    \A b \in Apis \ {a} :
        /\ cache[b] = << >>
        /\ \A c \in DOMAIN calls : calls[c].api = a

\* getItems(), getItemOrders(name), getWorldState(): return await
\* this.fetchWithCache(url)
DirectCall(a, url) ==
    /\ OnlyApiInUse(a)
    /\ LET s == IF FetchHit(St, a, url)
                THEN FetchReturnCached(St, a, url, "direct")
                ELSE FetchIssue(St, a, url, "direct", Nothing)
       IN WithinCalls(s) /\ Commit(s)

GetItems == DirectCall("api", ItemsUrl)
GetWorldState == DirectCall("alertsAPI", WorldStateUrl)

\* the network answers call c with a 2xx response carrying data
ResponseOk(c, data) ==
    LET s == Resume(Delivered(FetchSucceed(Deliver(St, c, data), c, data), data),
                    calls[c])
    IN WithinCalls(s) /\ Commit(s)

\* the network answers call c with a non-2xx status, or fetch rejects
ResponseFail(c) ==
    LET s == Resume(FetchFailed(St, c), calls[c])
    IN WithinCalls(s) /\ Commit(s)

DirectResponseOk ==
    \E c \in DOMAIN calls : \E data \in Payloads(calls[c].url) :
        ResponseOk(c, data)

DirectResponseFail == \E c \in DOMAIN calls : ResponseFail(c)

\* time passes; the macrotask that produced lastRet is over
Advance(d) == Commit([St EXCEPT !.now = @ + d])

\* the clock of the cache specification moves in steps of half the TTL of
\* the API object in use
CacheStep(a) == cacheTimeout(a) \div 2

CacheAdvance ==
    \E a \in Apis :
        /\ OnlyApiInUse(a)
        /\ now + CacheStep(a) <= MaxCacheSteps * CacheStep(a)
        /\ Advance(CacheStep(a))

NextCache ==
    \/ GetItems
    \/ GetWorldState
    \/ DirectResponseOk
    \/ DirectResponseFail
    \/ CacheAdvance

SpecCache == Init /\ [][NextCache]_vars

(***************************************************************************)
(* Properties of the TTL caches (specification SpecCache)                  *)
(***************************************************************************)
EntryAge(r) == r.now - Val(r.cached).timestamp

\* C1: for both caches, a fetchWithCache(url) call made while an entry for
\* url exists with now - timestamp < cacheTimeout returns that entry's
\* payload and issues no network request.
C1_FreshEntryServedWithoutRequest ==
    [][\A a \in Apis : \A url \in UrlsOf(a) :
          (/\ url \in DOMAIN cache[a]
           /\ now - cache[a][url].timestamp < cacheTimeout(a)
           /\ DirectCall(a, url))
          => /\ calls' = calls
             /\ served' = served
             /\ lastRet'.kind = "hit"
             /\ lastRet'.data = Some(cache[a][url].data)]_vars

\* a market entry older than the alerts TTL is still served from the cache
C1_Witness ==
    /\ lastRet.kind = "hit"
    /\ lastRet.api = "api"
    /\ EntryAge(lastRet) >= AlertsCacheTimeout

\* C2: for both caches, when the network fetch fails and an entry for the
\* URL already existed, even an expired one, fetchWithCache returns that
\* entry's payload instead of raising an error.
C2_FailedFetchReturnsEntry ==
    (lastRet.kind \in {"stale", "throw"} /\ IsSome(lastRet.cached))
        => lastRet.data = Some(Val(lastRet.cached).data)

\* C3: of two fetchWithCache calls for the same URL started less than one
\* TTL apart exactly one issues a network request, however calls and
\* responses interleave; so two such calls never both await a response.
C3_OneRequestPerUrlWithinTtl ==
    \A c1, c2 \in DOMAIN calls :
        (/\ c1 < c2
         /\ calls[c1].api = calls[c2].api
         /\ calls[c1].url = calls[c2].url)
        => \/ calls[c2].now - calls[c1].now >= cacheTimeout(calls[c1].api)
           \/ calls[c1].now - calls[c2].now >= cacheTimeout(calls[c1].api)

\* C5: a payload whose age is at least the TTL is returned only by a call
\* that itself attempted a network fetch and saw it fail, and no payload is
\* ever returned for a URL that was never successfully fetched.
C5_StaleOnlyAfterFailedFetch ==
    /\ (lastRet.kind \in {"hit", "stale"}
            /\ EntryAge(lastRet) >= cacheTimeout(lastRet.api))
        => (lastRet.kind = "stale" /\ lastRet.net = Nothing)
    /\ lastRet.kind = "fresh" => lastRet.data = lastRet.net
    /\ IsSome(lastRet.data)
        => <<lastRet.api, lastRet.url, Val(lastRet.data)>> \in served

\* an expired entry is returned after the fetch failed
C5_Witness ==
    /\ lastRet.kind = "stale"
    /\ EntryAge(lastRet) >= cacheTimeout(lastRet.api)

\* C6: with TTL 300000 ms (market) and 60000 ms (world state), a call made
\* when the entry's age is at least the TTL attempts a network fetch, and on
\* success replaces the entry with the new payload and returns the new
\* payload.
C6_ExpiredEntryRefetched ==
    [][/\ \A a \in Apis : \A url \in UrlsOf(a) :
            (/\ url \in DOMAIN cache[a]
             /\ now - cache[a][url].timestamp
                    >= (IF a = "api" THEN 300000 ELSE 60000)
             /\ DirectCall(a, url))
            => /\ Len(calls') = Len(calls) + 1
               /\ calls'[Len(calls')].api = a
               /\ calls'[Len(calls')].url = url
               /\ served' = served
       /\ (lastRet'.kind = "fresh" /\ IsSome(lastRet'.cached))
            => /\ lastRet'.data = lastRet'.net
               /\ cache'[lastRet'.api][lastRet'.url].data = Val(lastRet'.net)
      ]_vars

\* an expired entry was replaced by a different payload from the network
C6_Witness ==
    /\ lastRet.kind = "fresh"
    /\ IsSome(lastRet.cached)
    /\ EntryAge(lastRet) >= cacheTimeout(lastRet.api)
    /\ Val(lastRet.cached).data # Val(lastRet.data)
    /\ cache[lastRet.api][lastRet.url].data = Val(lastRet.data)


(***************************************************************************)
(* The market specification: search, suggestions, item loads, retry        *)
(***************************************************************************)
MarketStep == MarketCacheTimeout

\* the upstream data while the market tab is exercised: a fixed catalog and
\* one order book per item
MarketPayloads(url) ==
    IF url = ItemsUrl THEN { <<ItemAbc, ItemAb>> }
    ELSE IF url = OrdersUrl(ItemAb.url_name)
    THEN { <<RawOrder("online", "sell", 50), RawOrder("ingame", "sell", 60)>> }
    ELSE { <<RawOrder("ingame", "buy", 40)>> }

\* what the user may type into the search box
SearchTexts == { << >>, <<"a", "b">>, <<" ", "z", "z">> }

UserAct(s) == Len(s.calls) <= MaxMarketCalls /\ Commit(s)

TypeSearch == \E text \in SearchTexts : UserAct(HandleSearchInput(St, text))

\* Enter in the search box, or a click on the search button
ClickSearch ==
    \/ UserAct(HandleSearch(St))
    \/ UserAct(DocumentClick(HandleSearch(St)))

ClickSuggestion ==
    \E i \in DOMAIN suggestions : UserAct(SelectItem(St, suggestions[i]))

ClickRecent ==
    \E i \in DOMAIN recentSearches : UserAct(SelectItem(St, recentSearches[i]))

ClickElsewhere == suggestions # << >> /\ Commit(DocumentClick(St))

\* the menu entry Refresh Data, or a click on the retry button
ClickRetry ==
    \/ UserAct(HandleRetry(St))
    \/ UserAct(DocumentClick(HandleRetry(St)))

MarketResponseOk ==
    \E c \in DOMAIN calls : \E data \in MarketPayloads(calls[c].url) :
        ResponseOk(c, data)

MarketResponseFail == \E c \in DOMAIN calls : ResponseFail(c)

\* the clock moves on by one TTL; no request stays unanswered that long
MarketAdvance ==
    /\ now + MarketStep <= MaxMarketSteps * MarketStep
    /\ calls = << >>
    /\ Advance(MarketStep)

NextMarket ==
    \/ TypeSearch
    \/ ClickSearch
    \/ ClickSuggestion
    \/ ClickRecent
    \/ ClickElsewhere
    \/ ClickRetry
    \/ MarketResponseOk
    \/ MarketResponseFail
    \/ MarketAdvance

SpecMarket == Init /\ [][NextMarket]_vars

\* C4: when a network fetch fails and no cache entry exists for the URL, the
\* failure reaches the operation that started the request (handleSearch,
\* loadItemData, loadAlertsData) as an error, and that operation shows an
\* error message for the failure, not the outcome of an empty result.
C4_FailureShownByInitiator ==
    (lastRet.kind = "throw" /\ lastRet.cached = Nothing)
        => CASE lastRet.owner = "handleSearch" ->
                    panels.error /\ errorMessage = MsgConnectionFailed
             [] lastRet.owner = "loadItemData" ->
                    /\ panels.error
                    /\ errorMessage = MsgFailedToLoad(Val(currentItem))
             [] lastRet.owner = "loadAlertsData" -> cyclesContainer = "error"
             [] OTHER -> TRUE

(***************************************************************************)
(* The orders specification: the order table under every order book the    *)
(* server may return and every filter.  The program starts with one item   *)
(* among its stored recent searches; the user clicks it, waits for the     *)
(* order book and toggles the order filter.                                *)
(***************************************************************************)
Statuses == {"ingame", "online", "offline"}
OrderTypes == {"buy", "sell"}
Prices == {50, 60}

Orders ==
    { RawOrder(status, type, plat) :
        status \in Statuses, type \in OrderTypes, plat \in Prices }

\* the order books of at most MaxOrders orders
OrderBooks ==
    UNION { [1..n -> Orders] : n \in 0..MaxOrders }

\* order books with more orders of a side than the table shows: n orders of
\* one type, ingame and online in turn from offset k on, at five prices; the
\* quantity of an order is its place in the list, so that orders of equal
\* status and price differ
LongSide(type, k, n) ==
    [i \in 1..n |->
        ListedOrder(IF (i + k) % 2 = 0 THEN "ingame" ELSE "online", type,
                    40 + 10 * ((7 * i + k) % 5), i)]

LongBooks ==
    UNION { { LongSide("sell", k, n), LongSide("buy", k, n),
              LongSide("sell", k, n) \o LongSide("buy", k + 1, n) } :
            k \in 0..2, n \in (OrdersPerSide + 1)..MaxLongOrders }

InitOrders == Constructed(Some(JSONStringify(<<ItemAb>>)))

\* a click on the stored recent search, once the answer to the click before
\* has come
ClickRecentItem == calls = << >> /\ ClickRecent

\* a click on the order filter button
ClickOrderFilter == Commit(HandleFilterToggle(St))

OrdersResponseOk ==
    \E c \in DOMAIN calls : \E orders \in OrderBooks \cup LongBooks :
        ResponseOk(c, orders)

NextOrders ==
    \/ ClickRecentItem
    \/ ClickOrderFilter
    \/ OrdersResponseOk

SpecOrders == InitOrders /\ [][NextOrders]_vars

(***************************************************************************)
(* The overlapping-loads specification: two recent searches are stored,    *)
(* the user clicks them while loads are still in flight, and the answers   *)
(* come in any order.                                                      *)
(***************************************************************************)
InitOverlap == Constructed(Some(JSONStringify(<<ItemAb, ItemAbc>>)))

\* a click on a recent search, also while an earlier load is in flight
ClickRecentEarly ==
    /\ Len(calls) < MaxCalls
    /\ \E i \in DOMAIN recentSearches :
           Commit(SelectItem(St, recentSearches[i]))

OverlapResponseOk ==
    \E c \in DOMAIN calls : \E data \in MarketPayloads(calls[c].url) :
        ResponseOk(c, data)

OverlapResponseFail == \E c \in DOMAIN calls : ResponseFail(c)

NextOverlap ==
    \/ ClickRecentEarly
    \/ OverlapResponseOk
    \/ OverlapResponseFail

SpecOverlap == InitOverlap /\ [][NextOverlap]_vars

(***************************************************************************)
(* The recent-searches specification: on a first run, with nothing stored, *)
(* the user asks for suggestions, picks suggested items and items of the   *)
(* recent list, one load at a time, from a catalog of more items than the  *)
(* list keeps.                                                             *)
(***************************************************************************)
MaxRecentItems == 6

RecentLetters == <<"d", "e", "f", "g", "h", "i", "j", "k">>

\* response.payload.items of GET /items: MaxRecentItems items whose names
\* start alike
RecentCatalog ==
    [i \in 1..MaxRecentItems |->
        RawItem(<<"k", "i", RecentLetters[i]>>, <<"k", "i", RecentLetters[i]>>)]

RecentQuery == <<"k", "i">>

RecentPayloads(url) ==
    IF url = ItemsUrl THEN RecentCatalog ELSE <<RawOrder("ingame", "buy", 40)>>

TypeRecentQuery ==
    calls = << >> /\ UserAct(HandleSearchInput(St, RecentQuery))

ClickRecentSuggestion == calls = << >> /\ ClickSuggestion

RecentResponseOk ==
    \E c \in DOMAIN calls : ResponseOk(c, RecentPayloads(calls[c].url))

\* the orders of the first item of the catalog may fail to load
RecentResponseFail ==
    \E c \in DOMAIN calls :
        /\ calls[c].url = OrdersUrl(RecentCatalog[1].url_name)
        /\ ResponseFail(c)

NextRecent ==
    \/ TypeRecentQuery
    \/ ClickRecentSuggestion
    \/ ClickRecentItem
    \/ RecentResponseOk
    \/ RecentResponseFail

SpecRecent == Init /\ [][NextRecent]_vars

(***************************************************************************)
(* The alerts specification: tab switches, world-state loads, the tick     *)
(* interval, the refresh-check interval and the corrective timeout.  A      *)
(* timer callback runs when it is due; the user acts at the start and once  *)
(* more UserStep later; a world-state fetch is answered within              *)
(* MaxLatencyTicks ticks.                                                   *)
(***************************************************************************)
UserStep == 20000

UserMayAct == now \in {0, UserStep}

ClickMainTab ==
    /\ UserMayAct
    /\ \E tabName \in {"market", "alerts"} :
           LET s == DocumentClick(SwitchMainTab(St, tabName))
           IN WithinCalls(s) /\ Commit(s)

ClickRefreshAlerts ==
    /\ UserMayAct
    /\ currentMainTab = "alerts"
    /\ LET s == DocumentClick(RefreshAlertsClick(St))
       IN WithinCalls(s) /\ Commit(s)

ClickFissuresCard ==
    /\ UserMayAct
    /\ currentMainTab = "alerts"
    /\ fissuresCard # "absent"
    /\ Commit(DocumentClick(ToggleFissureDetails(St)))

Due(id) == id \in DOMAIN intervals /\ intervals[id].due <= now

Rearm(s, id, period) == [s EXCEPT !.intervals[id].due = @ + period]

\* the 1-second interval fires
TimerTick ==
    \E id \in DOMAIN intervals :
        /\ Due(id)
        /\ intervals[id].callback = "updateTimers"
        /\ Commit(UpdateTimers(Rearm(St, id, TickPeriod)))

\* the 60-second interval fires
RefreshCheck ==
    \E id \in DOMAIN intervals :
        /\ Due(id)
        /\ intervals[id].callback = "refreshCheck"
        /\ LET s == RefreshCheckCallback(Rearm(St, id, RefreshPeriod))
           IN WithinCalls(s) /\ Commit(s)

\* the 15-second timeout fires
RefreshTimeout ==
    \E due \in timeouts :
        /\ due <= now
        /\ LET s == RefreshTimeoutCallback([St EXCEPT !.timeouts = @ \ {due}])
           IN WithinCalls(s) /\ Commit(s)

AlertsResponseOk ==
    \E c \in DOMAIN calls : \E data \in WorldStates : ResponseOk(c, data)

AlertsResponseFail == \E c \in DOMAIN calls : ResponseFail(c)

AlertsAdvance ==
    /\ now + TickPeriod <= MaxSeconds * 1000
    /\ \A id \in DOMAIN intervals : intervals[id].due > now
    /\ \A due \in timeouts : due > now
    /\ \A c \in DOMAIN calls :
           now + TickPeriod - calls[c].now <= MaxLatencyTicks * TickPeriod
    /\ Advance(TickPeriod)

NextAlerts ==
    \/ ClickMainTab
    \/ ClickRefreshAlerts
    \/ ClickFissuresCard
    \/ TimerTick
    \/ RefreshCheck
    \/ RefreshTimeout
    \/ AlertsResponseOk
    \/ AlertsResponseFail
    \/ AlertsAdvance

SpecAlerts == Init /\ [][NextAlerts]_vars

(***************************************************************************)
(* The sparse-document specification: the alerts tab is opened and         *)
(* refreshed, one load at a time, while the server sends world-state       *)
(* documents with fields left out, and documents with one alert whose      *)
(* node is a code 'SolNode<n>' or a text of another form.                  *)
(***************************************************************************)
MaxNodeNumber == 999

\* no cycles, no alerts list, no fissures list
DocumentBare == [cycles |-> << >>]

\* a cycle and a fissure without expiry; alerts without expiry, without
\* mission, and with a mission that has some or all of its fields
DocumentSparse ==
    [cycles |-> [n \in {"Earth"} |-> Cycle("day", TRUE, Nothing)],
     alerts |->
         << [expiry |-> Nothing],
            [expiry |-> Some(Far), mission |-> [type |-> <<"Exterminate">>]],
            [expiry |-> Some(Far),
             mission |-> [type |-> <<"Capture">>, node |-> SolNode(52),
                          faction |-> <<"Corpus">>,
                          minEnemyLevel |-> 10, maxEnemyLevel |-> 15]] >>,
     fissures |-> <<RawFissure("Lith", Nothing), RawFissure("Meso", Some(Far))>>]

\* a cycle whose state is left out
DocumentNoState ==
    [cycles |-> [n \in {"Earth", "Cambion Drift"} |->
                    IF n = "Earth" THEN Cycle("day", TRUE, Some(Far))
                    ELSE [flag |-> FALSE, expiry |-> Some(Far)]],
     alerts |-> <<RawAlert(Some(Far))>>]

NodeCodes ==
    { SolNode(n) : n \in 0..MaxNodeNumber }
    \cup { SolNodePrefix, SolNodePrefix \o <<"0", "0", "7">>,
           SolNodePrefix \o <<"9", "x">>, <<"R", "e", "l", "a", "y">> }

NodeDocument(code) ==
    [cycles |-> << >>,
     alerts |-> <<[expiry |-> Some(Far), mission |-> [node |-> code]]>>]

SparseWorldStates ==
    {DocumentBare, DocumentSparse, DocumentNoState}
    \cup { NodeDocument(code) : code \in NodeCodes }

OpenOrLeaveAlerts == calls = << >> /\ ClickMainTab

RefreshSparse == calls = << >> /\ ClickRefreshAlerts

SparseResponseOk ==
    \E c \in DOMAIN calls : \E data \in SparseWorldStates : ResponseOk(c, data)

NextSparse ==
    \/ OpenOrLeaveAlerts
    \/ RefreshSparse
    \/ ClickFissuresCard
    \/ SparseResponseOk
    \/ AlertsResponseFail

SpecSparse == Init /\ [][NextSparse]_vars

(***************************************************************************)
(* Properties of the countdown timers and of the corrective refresh        *)
(* (specification SpecAlerts)                                              *)
(***************************************************************************)
\* the step completes a world-state load that renders: displayCycles,
\* displayAlerts and displayActivities run with the payload lastRet'.data
RefreshDelivers ==
    /\ lastRet'.owner = "loadAlertsData"
    /\ lastRet'.kind \in {"hit", "fresh"}

\* the step expands the fissures card, which runs displayFissureDetails
ExpandsFissures == fissuresCard = "collapsed" /\ fissuresCard' = "expanded"

TimersOf(kind) ==
    CASE kind = "cycle" -> cycleTimers
      [] kind = "alert" -> alertTimers
      [] kind = "fissure" -> fissureTimers

Kinds == {"cycle", "alert", "fissure"}

\* C7: over updateTimers ticks with no refresh in between, every tracked
\* timer's remaining seconds never increase, decrease by exactly 1 per tick
\* while positive, and once 0 stay 0 until the next refresh writes them.
C7_TickCountsDownToZero ==
    [][/\ TimerTick =>
            \A kind \in Kinds : \A k \in DOMAIN TimersOf(kind) :
                /\ k \in DOMAIN TimersOf(kind)'
                /\ TimersOf(kind)'[k].seconds =
                       IF TimersOf(kind)[k].seconds > 0
                       THEN TimersOf(kind)[k].seconds - 1 ELSE 0
       /\ ~(TimerTick \/ RefreshDelivers \/ ExpandsFissures) =>
            \A kind \in Kinds : TimersOf(kind)' = TimersOf(kind)
      ]_vars

\* the Earth cycle of WorldStateA has been held at 0 by several ticks while
\* another timer is still counting down
C7_Witness ==
    /\ currentMainTab = "alerts"
    /\ "Earth" \in DOMAIN cycleTimers
    /\ cycleTimers["Earth"].seconds = 0
    /\ now >= SoonCycle + 3 * TickPeriod
    /\ \E k \in DOMAIN alertTimers :
           /\ alertTimers[k].seconds > 0
           /\ alertTimers[k].seconds
                  < ExpirySeconds(Some(alertTimers[k].expiry), SoonCycle)

\* the authoritative remaining seconds a refresh delivers for a tracked
\* cycle whose state and day flag are unchanged
CycleUnchanged(ws, name) ==
    /\ name \in DOMAIN ws.cycles
    /\ cycleTimers[name].state = ws.cycles[name].state
    /\ cycleTimers[name].isDay = IsDayOf(name, ws.cycles[name])
    /\ Abs(CycleSeconds(ws.cycles[name], now) - cycleTimers[name].seconds)
          <= Tolerance

\* the same for a tracked alert or fissure: the entry at its index has the
\* expiry instant the timer was created with
ExpiryUnchanged(timers, shown, k) ==
    /\ k + 1 \in DOMAIN shown
    /\ shown[k + 1].expiry = Some(timers[k].expiry)
    /\ Abs(ExpirySeconds(shown[k + 1].expiry, now) - timers[k].seconds)
          <= Tolerance

\* C8 as stated: for every tracked timer of any kind, a refresh whose
\* authoritative remaining time differs from the tracked remaining seconds
\* by at most 120 and whose state metadata is unchanged leaves the tracked
\* remaining seconds unchanged.
C8_RefreshKeepsEveryTimer ==
    [][RefreshDelivers =>
        LET ws == Val(lastRet'.data) IN
        /\ \A name \in DOMAIN cycleTimers :
               CycleUnchanged(ws, name)
               => cycleTimers'[name].seconds = cycleTimers[name].seconds
        /\ \A k \in DOMAIN alertTimers :
               ExpiryUnchanged(alertTimers, Take(ws.alerts, AlertCap), k)
               => /\ k \in DOMAIN alertTimers'
                  /\ alertTimers'[k].seconds = alertTimers[k].seconds
      ]_vars

\* C8 amended: the rule holds for cycle timers; alert and fissure timers are
\* cleared and written again by every refresh that renders them.
C8_RefreshKeepsCycleTimer ==
    [][RefreshDelivers =>
        LET ws == Val(lastRet'.data) IN
        \A name \in DOMAIN cycleTimers :
            CycleUnchanged(ws, name)
            => cycleTimers'[name].seconds = cycleTimers[name].seconds
      ]_vars

\* a refresh has just rendered a cycle whose tracked seconds differ from the
\* authoritative value by at most 120, in the same state
C8_Witness ==
    /\ lastRet.owner = "loadAlertsData"
    /\ lastRet.kind \in {"hit", "fresh"}
    /\ \E name \in DOMAIN cycleTimers \cap DOMAIN Val(lastRet.data).cycles :
           LET data == Val(lastRet.data).cycles[name] IN
           /\ cycleTimers[name].state = data.state
           /\ cycleTimers[name].isDay = IsDayOf(name, data)
           /\ cycleTimers[name].seconds # CycleSeconds(data, now)
           /\ Abs(cycleTimers[name].seconds - CycleSeconds(data, now))
                 <= Tolerance

\* the step schedules a corrective refresh
SchedulesRefresh == timeouts' \ timeouts # {}

\* C9: after a timer has reached 0 one corrective refresh is scheduled, 15
\* seconds ahead, and none is scheduled again while the set of expired
\* timers stays non-empty: scheduling happens only in a step in which the
\* set becomes non-empty.
C9_RefreshScheduledOnEdge ==
    [][SchedulesRefresh =>
        /\ ExpiredTimers(St) = {}
        /\ timeouts' \ timeouts = {now + RefreshDelay}
      ]_vars

\* a world-state load started by the corrective timeout awaits its response
CorrectiveLoads ==
    { c \in DOMAIN calls :
        /\ calls[c].owner = "loadAlertsData"
        /\ calls[c].arg = Some("expiredTimers") }

\* C10: while a corrective refresh is outstanding, from the tick that
\* schedules it until the world-state load it starts has completed, no tick
\* schedules a second one.
C10_OneCorrectiveRefreshOutstanding ==
    Cardinality(timeouts) + Cardinality(CorrectiveLoads) <= 1

\* the step starts loadAlertsData(): it is answered from the cache within
\* the step or it leaves a request in flight
StartsRefresh ==
    \/ lastRet'.owner = "loadAlertsData"
    \/ Len(calls') > Len(calls)

\* a tracked timer of any kind is counting down inside the next two hours
AnyActiveTimer ==
    \E kind \in Kinds : \E k \in DOMAIN TimersOf(kind) :
        TimersOf(kind)[k].seconds > 0 /\ TimersOf(kind)[k].seconds < 7200

\* C11: the 60-second refresh check starts a world-state refresh exactly
\* when no refresh has succeeded yet, or more than 120000 ms have passed
\* since the last successful refresh, or no tracked timer of any kind
\* (cycle, alert, fissure) has 0 < remaining seconds < 7200; otherwise it
\* skips the refresh.
C11_RefreshCheckDecision ==
    [][RefreshCheck =>
        (StartsRefresh <=>
            \/ lastRefresh = Nothing
            \/ now - Val(lastRefresh) > 120000
            \/ ~AnyActiveTimer)
      ]_vars

\* the live intervals that run callback
IntervalsOf(callback) ==
    { id \in DOMAIN intervals : intervals[id].callback = callback }

\* C12: whenever the active main tab is not 'alerts', neither the 1-second
\* tick interval nor the 60-second refresh-check interval is running, also
\* after a world-state load started on the alerts tab completes later; and
\* never does more than one interval of either kind exist.
C12_IntervalsOnlyOnAlertsTab ==
    /\ currentMainTab # "alerts" => DOMAIN intervals = {}
    /\ Cardinality(IntervalsOf("updateTimers")) <= 1
    /\ Cardinality(IntervalsOf("refreshCheck")) <= 1

\* a world-state load has just rendered its payload while the market tab is
\* the active one
C12_Witness ==
    /\ currentMainTab = "market"
    /\ lastRet.owner = "loadAlertsData"
    /\ lastRet.kind = "fresh"
    /\ IsSome(lastRefresh)
    /\ DOMAIN cycleTimers # {}

\* the step is a switch to the alerts tab
OpensAlertsTab == ClickMainTab /\ currentMainTab' = "alerts"

\* C13: every switch to the alerts tab restarts both periodic tasks (the
\* tick 1 s and the refresh check 60 s from then on, each on an interval of
\* its own) and starts exactly one world-state refresh within the step,
\* before any periodic check fires.
C13_SwitchRestartsAndRefreshes ==
    [][OpensAlertsTab =>
        /\ \E t \in IntervalsOf("updateTimers")', r \in IntervalsOf("refreshCheck")' :
              /\ t # r
              /\ DOMAIN intervals' = {t, r}
              /\ timerUpdateInterval' = Some(t)
              /\ alertsRefreshInterval' = Some(r)
              /\ intervals'[t].due = now + TickPeriod
              /\ intervals'[r].due = now + RefreshPeriod
        /\ \/ /\ calls' = calls
              /\ lastRet'.owner = "loadAlertsData"
              /\ lastRet'.kind = "hit"
           \/ /\ Len(calls') = Len(calls) + 1
              /\ \A c \in DOMAIN calls : calls'[c] = calls[c]
              /\ calls'[Len(calls')].owner = "loadAlertsData"
              /\ calls'[Len(calls')].arg = Some("switchMainTab")
              /\ calls'[Len(calls')].now = now
              /\ lastRet'.owner # "loadAlertsData"
      ]_vars

\* the alerts tab has just been opened again, UserStep after the start: both
\* intervals are armed afresh and the forced load has rendered the entry of
\* the cache
C13_Witness ==
    /\ currentMainTab = "alerts"
    /\ now = UserStep
    /\ lastRefresh = Some(now)
    /\ lastRet.owner = "loadAlertsData"
    /\ lastRet.kind = "hit"
    /\ \E t \in IntervalsOf("updateTimers"), r \in IntervalsOf("refreshCheck") :
          /\ intervals[t].due = now + TickPeriod
          /\ intervals[r].due = now + RefreshPeriod

\* a tick of the 1-second interval is due and has not run yet
TickDue == \E t \in IntervalsOf("updateTimers") : intervals[t].due <= now

\* the step is the completion of a world-state fetch
FetchCompletes == Len(calls') < Len(calls)

\* C14: while a world-state fetch is in flight on the alerts tab the tick
\* loop keeps running, one decrement of each positive timer per elapsed
\* second, and no tick is lost or applied twice, also across the moment the
\* fetch completes: a tick that is due when the fetch completes still runs
\* afterwards, unless the completion itself has renewed every positive
\* timer it keeps.
C14_NoTickLostAcrossFetch ==
    [][(currentMainTab = "alerts" /\ TickDue /\ FetchCompletes)
        => \/ TickDue'
           \/ \A kind \in Kinds : \A k \in DOMAIN TimersOf(kind) :
                 (TimersOf(kind)[k].seconds > 0 /\ k \in DOMAIN TimersOf(kind)')
                 => TimersOf(kind)'[k].seconds # TimersOf(kind)[k].seconds
      ]_vars


\* the timer elements of one kind
ElsOf(kind) ==
    CASE kind = "cycle" -> cycleEls
      [] kind = "alert" -> alertEls
      [] kind = "fissure" -> fissureEls

\* the element of timer k shows the expired display state
ShowsExpired(kind, k) ==
    /\ k \in DOMAIN ElsOf(kind)
    /\ ElsOf(kind)[k].warning
    /\ IF kind = "cycle"
       THEN ElsOf(kind)[k].text = Text("Cycle changing...")
       ELSE ElsOf(kind)[k].text = Text("Expired") /\ ElsOf(kind)[k].expired

\* C15 as stated: when a timer reaches 0 its expired display state is
\* applied exactly once; a later tick during which it remains at 0 does not
\* apply the expired state to an element that already shows it.
C15_ExpiredAppliedOnce ==
    [][TimerTick =>
          \A e \in expiredWrites' : ~ShowsExpired(e[1], e[2])
      ]_vars

\* C15 as amended: a tick that finds a timer at 0 applies the expired
\* display state to the timer's element; a later tick during which it
\* remains at 0 applies the same state again and leaves the element as it
\* was.
C15_ExpiredReappliedUnchanged ==
    [][TimerTick =>
          \A kind \in Kinds :
              \A k \in DOMAIN TimersOf(kind) \cap DOMAIN ElsOf(kind) :
                  TimersOf(kind)[k].seconds = 0 =>
                      /\ <<kind, k>> \in expiredWrites'
                      /\ ShowsExpired(kind, k)'
                      /\ ShowsExpired(kind, k) =>
                             ElsOf(kind)'[k] = ElsOf(kind)[k]
      ]_vars

\* two ticks after the first alert of WorldStateA ran out, a tick has
\* written the expired state of the Earth cycle and of that alert again
C15_Witness ==
    /\ currentMainTab = "alerts"
    /\ now >= SoonAlert + 2 * TickPeriod
    /\ {<<"cycle", "Earth">>, <<"alert", 0>>} \subseteq expiredWrites
    /\ ShowsExpired("cycle", "Earth")
    /\ ShowsExpired("alert", 0)
    /\ cycleTimers["Earth"].seconds = 0
    /\ alertTimers[0].seconds = 0


\* the entry displayCycles stores for a cycle of the refreshed world state
Authoritative(ws, name) ==
    [seconds |-> IF IsSome(ws.cycles[name].expiry)
                 THEN Max({0, (Val(ws.cycles[name].expiry) - now) \div 1000})
                 ELSE 0,
     state |-> ws.cycles[name].state,
     isDay |-> IF name = "Cambion Drift" THEN ws.cycles[name].state = "fass"
               ELSE ws.cycles[name].flag]

\* C16: for a cycle timer, a refresh creates the entry with the
\* authoritative remaining seconds when none exists, and overwrites an
\* existing entry if and only if the cycle's state or isDay flag changed or
\* the authoritative value differs from the tracked value by more than 120
\* seconds.
C16_CycleUpsert ==
    [][RefreshDelivers =>
        LET ws == Val(lastRet'.data) IN
        \A name \in DOMAIN ws.cycles :
            LET new == Authoritative(ws, name) IN
            IF name \notin DOMAIN cycleTimers
            THEN cycleTimers'[name] = new
            ELSE LET old == cycleTimers[name]
                     differs ==
                         \/ old.state # new.state
                         \/ old.isDay # new.isDay
                         \/ old.seconds - new.seconds > 120
                         \/ new.seconds - old.seconds > 120
                 IN cycleTimers'[name] = IF differs THEN new ELSE old
      ]_vars

\* a refresh has just replaced the Earth timer because the cycle changed
\* state, the values being within 120 seconds of each other, and the
\* Cambion Drift timer because the values are further apart, the state being
\* the same; an earlier refresh created both
C16_Witness ==
    /\ lastRet.owner = "loadAlertsData"
    /\ lastRet.kind \in {"hit", "fresh"}
    /\ lastRet.data = Some(WorldStateB)
    /\ \E e \in served : e[3] = WorldStateA
    /\ cycleTimers["Earth"] =
           [seconds |-> (Later - now) \div 1000, state |-> "night",
            isDay |-> FALSE]
    /\ cycleTimers["Cambion Drift"] =
           [seconds |-> (Far - now) \div 1000, state |-> "fass",
            isDay |-> TRUE]


\* C17: after any successful refresh completes, the alert and fissure timer
\* registries contain no timer for an entity that the refreshed world state
\* no longer reports, also when it reports no alerts or no fissures at
\* all: every alert timer belongs to the alert at its index and every
\* fissure timer to a reported fissure with its expiry.
C17_NoTimerForUnreportedEntity ==
    [][RefreshDelivers =>
        LET ws == Val(lastRet'.data) IN
        /\ \A k \in DOMAIN alertTimers' :
               /\ k + 1 \in DOMAIN ws.alerts
               /\ ws.alerts[k + 1].expiry = Some(alertTimers'[k].expiry)
        /\ \A k \in DOMAIN fissureTimers' :
               \E i \in DOMAIN ws.fissures :
                   ws.fissures[i].expiry = Some(fissureTimers'[k].expiry)
      ]_vars


\* the rows of the order table that show orders of one type, in table order
Side(type) ==
    LET IsOfType(o) == o.order_type = type IN FilterSeq(ordersTable, IsOfType)

\* C18: for every order list and every filter value, the ranked output
\* contains no order whose user status is offline; with filter 'buy' it
\* contains only buy orders, with 'sell' only sell orders, and with 'all'
\* both a buy side and a sell side: a side is shown whenever the list has an
\* order of its type that is not offline.
C18_StatusAndTypeFilter ==
    IsSome(currentOrders) =>
        /\ \A i \in DOMAIN ordersTable :
               ordersTable[i].user.status # "offline"
        /\ orderFilter = "buy" => Side("sell") = << >>
        /\ orderFilter = "sell" => Side("buy") = << >>
        /\ orderFilter = "all" =>
               \A type \in OrderTypes :
                   (\E j \in DOMAIN Val(currentOrders) :
                        /\ Val(currentOrders)[j].order_type = type
                        /\ Val(currentOrders)[j].user.status # "offline")
                   => Side(type) # << >>

\* under the filter 'buy' a list with an offline buy order, a sell order and
\* an online buy order shows the online buy order alone
C18_Witness ==
    /\ orderFilter = "buy"
    /\ currentOrders = Some(<<RawOrder("offline", "buy", 60),
                              RawOrder("online", "sell", 50),
                              RawOrder("online", "buy", 50)>>)
    /\ ordersTable = <<RawOrder("online", "buy", 50)>>


\* a before b is the price order of their side: descending for buy orders,
\* ascending for sell orders
InPriceOrder(type, a, b) ==
    IF type = "buy" THEN a.platinum >= b.platinum
    ELSE a.platinum <= b.platinum

\* C19 as stated: buy orders are ordered by descending platinum and sell
\* orders by ascending platinum as the primary sort key; the user status
\* priority (ingame before online) only breaks ties between orders of equal
\* platinum.
C19_PriceIsPrimaryKey ==
    \A type \in OrderTypes :
        \A i, j \in DOMAIN Side(type) :
            i < j =>
                /\ InPriceOrder(type, Side(type)[i], Side(type)[j])
                /\ Side(type)[i].platinum = Side(type)[j].platinum =>
                       ~(/\ Side(type)[i].user.status = "online"
                         /\ Side(type)[j].user.status = "ingame")

\* C19 as amended: the user status priority (ingame before online) is the
\* primary sort key; buy orders are ordered by descending platinum and sell
\* orders by ascending platinum between orders of equal status.  Stated for
\* every two neighbours of a side.
C19_StatusIsPrimaryKey ==
    \A type \in OrderTypes :
        \A i \in DOMAIN Side(type) :
            i + 1 \in DOMAIN Side(type) =>
                LET a == Side(type)[i]
                    b == Side(type)[i + 1]
                IN /\ a.user.status = "online" => b.user.status = "online"
                   /\ a.user.status = b.user.status =>
                          InPriceOrder(type, a, b)

\* three buy orders: the ingame order at the lower price leads, the online
\* orders follow by descending price
C19_Witness ==
    /\ currentOrders = Some(<<RawOrder("online", "buy", 50),
                              RawOrder("online", "buy", 60),
                              RawOrder("ingame", "buy", 50)>>)
    /\ ordersTable = <<RawOrder("ingame", "buy", 50),
                       RawOrder("online", "buy", 60),
                       RawOrder("online", "buy", 50)>>

\* the sell orders of the example
ExampleOrders ==
    <<RawOrder("online", "sell", 50), RawOrder("ingame", "sell", 60)>>

\* C20: within each side of the ranked output status priority beats price:
\* every ingame order precedes every online order, and only among orders of
\* equal status are they ordered by platinum (sell ascending, buy
\* descending); the sell orders online@50 and ingame@60 rank as
\* [ingame@60, online@50].
C20_PriorityBeatsPrice ==
    /\ \A type \in OrderTypes :
           \A i, j \in DOMAIN Side(type) :
               i < j =>
                   /\ ~(/\ Side(type)[i].user.status = "online"
                        /\ Side(type)[j].user.status = "ingame")
                   /\ Side(type)[i].user.status = Side(type)[j].user.status
                          => InPriceOrder(type, Side(type)[i], Side(type)[j])
    /\ (currentOrders = Some(ExampleOrders) /\ orderFilter # "buy") =>
           ordersTable = <<ExampleOrders[2], ExampleOrders[1]>>

\* the example has been loaded and ranked
C20_Witness ==
    /\ currentOrders = Some(ExampleOrders)
    /\ orderFilter = "sell"
    /\ ordersTable = <<RawOrder("ingame", "sell", 60),
                       RawOrder("online", "sell", 50)>>


\* the orders of the loaded list that the status filter and the order
\* filter let through to one side, in input order
Eligible(type) ==
    LET Passes(o) ==
            /\ o.order_type = type
            /\ o.user.status \in {"ingame", "online"}
            /\ orderFilter \in {"all", type}
    IN IF IsSome(currentOrders) THEN FilterSeq(Val(currentOrders), Passes)
       ELSE << >>

\* how often order o occurs in q
CountOf(q, o) == Cardinality({ i \in DOMAIN q : q[i] = o })

\* a ranks at or before b on the side of the given type
RanksNotAfter(type, a, b) ==
    \/ a.user.status = "ingame" /\ b.user.status = "online"
    \/ a.user.status = b.user.status /\ InPriceOrder(type, a, b)

\* C21: each side of the ranked output holds at most 10 orders, and they are
\* exactly the first 10 (or all, if fewer) of that side's fully sorted
\* list: the side shows orders of the list, as many as there are up to 10,
\* and no order left out ranks before a shown one.
C21_TopTenPerSide ==
    \A type \in OrderTypes :
        LET side == Side(type)
            all == Eligible(type)
            Rows == { side[i] : i \in DOMAIN side }
            Left == { all[j] : j \in DOMAIN all }
        IN /\ Len(side) <= 10
           /\ Len(side) = IF Len(all) < 10 THEN Len(all) ELSE 10
           /\ \A o \in Rows : CountOf(side, o) <= CountOf(all, o)
           /\ \A o \in Left :
                  CountOf(side, o) < CountOf(all, o) =>
                      \A r \in Rows : RanksNotAfter(type, r, o)

\* a list with twelve sell orders that pass the filters is loaded: the table
\* shows ten of them, all ingame
C21_Witness ==
    /\ Len(Eligible("sell")) = 12
    /\ Len(Side("sell")) = 10
    /\ Side("buy") = << >>
    /\ \E j \in DOMAIN Eligible("sell") :
           Eligible("sell")[j].user.status = "online"

\* the places of order o in the list q
PlacesOf(q, o) == { p \in DOMAIN q : q[p] = o }

\* C22: ranking is stable and deterministic.  Of two different rows of a side
\* of the table that are equal in status and platinum, the upper one stands
\* before the lower one in the order list the table was made from; and a step
\* that makes the table again from the same order list under the same filter
\* leaves the table as it was.
C22_StableRanking ==
    /\ \A type \in OrderTypes :
           LET side == Side(type)
               input == Val(currentOrders)
           IN \A i, j \in DOMAIN side :
                  /\ i < j
                  /\ side[i] # side[j]
                  /\ side[i].user.status = side[j].user.status
                  /\ side[i].platinum = side[j].platinum
                  => /\ \E p \in PlacesOf(input, side[i]) :
                         \E q \in PlacesOf(input, side[j]) : p < q
                     /\ ~ \E p \in PlacesOf(input, side[i]) :
                           \E q \in PlacesOf(input, side[j]) : q < p
    /\ IsSome(currentOrders) =>
           ordersTable = DisplayOrders(Val(currentOrders), orderFilter)

\* a table whose sell side shows orders of equal status and price that differ
\* in their place in the order list only
C22_Witness ==
    /\ IsSome(currentOrders)
    /\ \E i, j \in DOMAIN Side("sell") :
           /\ i < j
           /\ Side("sell")[i] # Side("sell")[j]
           /\ Side("sell")[i].user.status = Side("sell")[j].user.status
           /\ Side("sell")[i].platinum = Side("sell")[j].platinum
           /\ Side("sell")[i].quantity < Side("sell")[j].quantity

\* the url_names of a list of items
UrlNames(list) == [i \in DOMAIN list |-> list[i].url_name]

\* the list q without the entries equal to x
Without(q, x) == LET Differs(y) == y # x IN FilterSeq(q, Differs)

\* a step in which a load of an item got its orders, from the cache or from
\* the network, and so added the item to the recent searches
AddsRecent == lastRet'.owner = "loadItemData" /\ lastRet'.kind # "throw"

\* C23: starting from an empty list, the recent-searches list always has at
\* most 5 entries, no two with the same url_name, and what is stored under
\* 'recentSearches' parses to the list in memory; every load that adds an
\* item puts it at the head and leaves the entries added before it behind it
\* in the order they had, and no other step changes the list.
C23_RecentSearches ==
    /\ [](/\ Len(recentSearches) <= 5
          /\ \A i, j \in DOMAIN recentSearches :
                 recentSearches[i].url_name = recentSearches[j].url_name
                 => i = j
          /\ recentSearches = JSONParse(StoredOrEmpty(localStorage)))
    /\ [][IF AddsRecent
          THEN /\ recentSearches' # << >>
               /\ OrdersUrl(recentSearches'[1].url_name) = lastRet'.url
               /\ LET before == Without(UrlNames(recentSearches),
                                        recentSearches'[1].url_name)
                      behind == Tail(UrlNames(recentSearches'))
                  IN /\ Len(behind) <= Len(before)
                     /\ behind = SubSeq(before, 1, Len(behind))
                     /\ Len(behind) < Len(before) => Len(recentSearches') = 5
          ELSE recentSearches' = recentSearches]_vars

\* the list is full, an item loaded before has dropped out of it, and the
\* item just loaded from the cache was in the list before and is now its head
C23_Witness ==
    /\ Len(recentSearches) = 5
    /\ lastRet.owner = "loadItemData"
    /\ lastRet.kind = "hit"
    /\ OrdersUrl(recentSearches[1].url_name) = lastRet.url
    /\ IsSome(localStorage)
    /\ \E i \in DOMAIN RecentCatalog :
           /\ OrdersUrl(RecentCatalog[i].url_name) \in DOMAIN cache["api"]
           /\ \A j \in DOMAIN recentSearches :
                  recentSearches[j].url_name # RecentCatalog[i].url_name

\* alert.mission has no value for the field
LacksField(alert, field) ==
    ~ ("mission" \in DOMAIN alert /\ field \in DOMAIN alert.mission)

\* the document leaves out nothing but cycles, expiries, the alerts or the
\* fissures list, and fields of missions
OnlyOptionalLeftOut(ws) ==
    \A name \in DOMAIN ws.cycles : "state" \in DOMAIN ws.cycles[name]

\* a step in which loadAlertsData got a world state, from the network or
\* from the cache
GetsWorldState == lastRet'.owner = "loadAlertsData" /\ lastRet'.kind # "throw"

PlanetOfNumber(n) ==
    IF n \div 50 < 13 THEN Planets[(n \div 50) + 1] ELSE "Unknown Planet"

\* C25: an alert whose node is SolNode<n> is shown at the name the lookup
\* table has for that code, and when the table has none at
\* '<code> (<planet>)', the planet being entry floor(n / 50) of the list of
\* 13 planets, or 'Unknown Planet' beyond the list, as for SolNode999.
C25_NodeFallback ==
    IsSome(currentWorldState) =>
        LET shown == Take(AlertsOf(Val(currentWorldState)), 8) IN
        \A i \in DOMAIN shown \cap DOMAIN alertCards :
            \A n \in 0..MaxNodeNumber :
                (~LacksField(shown[i], "node")
                   /\ shown[i].mission.node = SolNode(n))
                => LET named == { e \in DOMAIN NodeEntries :
                                    NodeEntries[e][1] = n }
                   IN /\ named # {}
                         => \E e \in named :
                                alertCards[i].location = <<NodeEntries[e][2]>>
                      /\ named = {}
                         => alertCards[i].location =
                                SolNode(n) \o <<" (", PlanetOfNumber(n), ")">>
                      /\ n = 999
                         => alertCards[i].location =
                                SolNode(999) \o <<" (", "Unknown Planet", ")">>

\* SolNode999 is shown with 'Unknown Planet'
C25_Witness ==
    /\ IsSome(currentWorldState)
    /\ Val(currentWorldState) = NodeDocument(SolNode(999))
    /\ alertCards[1].location = SolNode(999) \o <<" (", "Unknown Planet", ")">>

\* the remaining seconds of all timers of the three registries
StoredSeconds ==
    { cycleTimers[k].seconds : k \in DOMAIN cycleTimers }
    \cup { alertTimers[k].seconds : k \in DOMAIN alertTimers }
    \cup { fissureTimers[k].seconds : k \in DOMAIN fissureTimers }

FiredTimeouts == timeouts \ timeouts'

\* the calls of corrective refreshes that are answered in a step
AnsweredCorrective ==
    { c \in DOMAIN calls :
        /\ calls[c].owner = "loadAlertsData"
        /\ calls[c].arg = Some("expiredTimers")
        /\ calls' = RemoveAt(calls, c) }

\* C27: a refresh that is started because a timer expired gets a world
\* state fetched from the network after the expiry: it is not served from
\* the cache, fresh or stale, with a payload stored before the tick that
\* found the timer at 0 and scheduled the refresh.
C27_CorrectiveRefreshIsFresh ==
    [][/\ (lastRet'.owner = "loadAlertsData" /\ lastRet'.kind = "hit")
          => \A due \in FiredTimeouts :
                 Val(lastRet'.cached).timestamp >= due - RefreshDelay
       /\ (lastRet'.owner = "loadAlertsData" /\ lastRet'.kind = "stale")
          => \A c \in AnsweredCorrective :
                 Val(lastRet'.cached).timestamp >= calls[c].now - RefreshDelay
      ]_vars

\* C28: when item loads overlap, once all of them have settled the item
\* name and the orders on display are those of the item requested last,
\* which is currentItem.
C28_DisplayAgreesWithCurrentItem ==
    (calls = << >> /\ IsSome(currentItem) /\ panels.results)
    => /\ itemNameEl = Val(currentItem).item_name
       /\ IsSome(currentOrders)
       /\ Val(currentOrders)
              \in MarketPayloads(OrdersUrl(Val(currentItem).url_name))

\* C29: for each URL the timestamp of the cache entry never decreases, and
\* the entry holds the payload of the successful fetch that started last:
\* a fetch that started before the one whose payload is stored leaves the
\* entry as it is when it completes later.
C29_EntryOfLatestStartedFetch ==
    [][\A a \in Apis : \A url \in DOMAIN cache[a] :
           /\ url \in DOMAIN cache'[a]
           /\ cache'[a][url].timestamp >= cache[a][url].timestamp
           /\ (/\ lastRet'.kind = "fresh"
               /\ lastRet'.api = a
               /\ lastRet'.url = url
               /\ lastRet'.now < cache[a][url].timestamp)
              => cache'[a][url] = cache[a][url]
      ]_vars

\* a step in which the fetch of a world-state load fails
WorldStateFetchFails ==
    lastRet'.owner = "loadAlertsData" /\ lastRet'.kind = "throw"

\* C30: a world-state refresh whose fetch fails leaves the cycle, alert and
\* fissure timer registries and lastRefresh as they were, shows the alerts
\* error and hides the loading indicator.
C30_FailedRefreshKeepsTimers ==
    [][WorldStateFetchFails =>
        /\ cycleTimers' = cycleTimers
        /\ alertTimers' = alertTimers
        /\ fissureTimers' = fissureTimers
        /\ lastRefresh' = lastRefresh
        /\ cyclesContainer' = "error"
        /\ ~alertsLoading'
      ]_vars

\* a refresh has just failed after an earlier one had set timers of all
\* three kinds
C30_Witness ==
    /\ lastRet.owner = "loadAlertsData"
    /\ lastRet.kind = "throw"
    /\ cyclesContainer = "error"
    /\ ~alertsLoading
    /\ IsSome(lastRefresh)
    /\ cycleTimers # << >>
    /\ alertTimers # << >>
    /\ fissureTimers # << >>

\* C31: the pendingRefresh flag is never stuck.  The flag is up exactly
\* while the timeout of updateTimers is pending; a tick that sets the flag
\* arms the timeout 15 seconds ahead; no pending timeout is overdue; the
\* timeout clears the flag when it fires, whatever the tab and whatever the
\* outcome of the fetches, and on a tab other than alerts it starts no
\* world-state load.
C31_PendingRefreshCleared ==
    /\ [](pendingRefresh <=> timeouts # {})
    /\ [](\A due \in timeouts : now <= due /\ due <= now + RefreshDelay)
    /\ [][((~pendingRefresh /\ pendingRefresh')
              => timeouts' = {now + RefreshDelay})
          /\ (FiredTimeouts # {}
                => (/\ ~pendingRefresh'
                    /\ timeouts' = {}
                    /\ (currentMainTab # "alerts"
                          => (/\ calls' = calls
                              /\ lastRet'.owner = "none"
                              /\ alertsLoading' = alertsLoading))))
         ]_vars

\* the timeout is due while the market tab is active
C31_Witness ==
    /\ pendingRefresh
    /\ currentMainTab = "market"
    /\ timeouts = {now}


(***************************************************************************)
(* The away specification: the user opens the alerts tab, lets the timers  *)
(* tick for a moment, spends a long time on the market tab, where no timer *)
(* ticks and nothing is refreshed, and comes back.  The documents hold     *)
(* cycles only, which expire far later than the time covered.              *)
(***************************************************************************)
AwayStep == 100000      \* ms spent on the market tab in one go
MaxAwaySteps == 2       \* long stays on the market tab
MaxAwayTicks == 2       \* ticks of the clock after each long stay
LongCycle == 1000000    \* expiry instant (ms) of the Earth cycle

AwayDocument(state) ==
    [cycles |-> [n \in {"Earth", "Cambion Drift"} |->
                    IF n = "Earth"
                    THEN Cycle(state, state = "day", Some(LongCycle))
                    ELSE Cycle("fass", FALSE, Some(Remote))],
     alerts |-> << >>,
     fissures |-> << >>]

AwayWorldStates == {AwayDocument("day"), AwayDocument("night")}

AwayClickMainTab ==
    /\ calls = << >>
    /\ \E tabName \in {"market", "alerts"} :
           LET s == DocumentClick(SwitchMainTab(St, tabName))
           IN WithinCalls(s) /\ Commit(s)

AwayResponseOk ==
    \E c \in DOMAIN calls : \E data \in AwayWorldStates : ResponseOk(c, data)

AwayTick ==
    /\ (now % AwayStep) + TickPeriod <= MaxAwayTicks * TickPeriod
    /\ \A id \in DOMAIN intervals : intervals[id].due > now
    /\ \A due \in timeouts : due > now
    /\ Advance(TickPeriod)

StayAway ==
    /\ currentMainTab = "market"
    /\ calls = << >>
    /\ DOMAIN intervals = {}
    /\ timeouts = {}
    /\ now + AwayStep <= MaxAwaySteps * AwayStep + MaxAwayTicks * TickPeriod
    /\ Advance(AwayStep)

NextAway ==
    \/ AwayClickMainTab
    \/ AwayResponseOk
    \/ AlertsResponseFail
    \/ TimerTick
    \/ AwayTick
    \/ StayAway

SpecAway == Init /\ [][NextAway]_vars

\* C32: right after a refresh that rendered, the remaining seconds tracked
\* for every cycle of the delivered world state differ from the remaining
\* time computed from that cycle's expiry by at most 120 seconds, also when
\* the timers stood still while the market tab was active
C32_CycleTimersWithinTolerance ==
    [][RefreshDelivers =>
        (\A name \in DOMAIN Val(lastRet'.data).cycles :
            /\ name \in DOMAIN cycleTimers'
            /\ Abs(cycleTimers'[name].seconds
                   - CycleSeconds(Val(lastRet'.data).cycles[name], now'))
                 <= Tolerance)
      ]_vars

\* after a stay on the market tab a refresh has rendered and kept an Earth
\* timer that stood still meanwhile
C32_Witness ==
    /\ now >= AwayStep
    /\ currentMainTab = "alerts"
    /\ lastRet.owner = "loadAlertsData"
    /\ lastRet.kind \in {"hit", "fresh"}
    /\ "Earth" \in DOMAIN cycleTimers
    /\ cycleTimers["Earth"].seconds
         # CycleSeconds(Val(lastRet.data).cycles["Earth"], now)


(***************************************************************************)
(* The search specification: the user types a query and presses the search *)
(* button, one request at a time, against a catalog in which more items    *)
(* contain "ab" than searchItems returns, the item named "Ab" coming last. *)
(***************************************************************************)
MaxCatalogItems == 11   \* items of the catalog

SearchLetters == <<"d", "e", "f", "g", "h", "i", "j", "k", "l", "m">>

\* response.payload.items of GET /items
SearchCatalog ==
    [i \in 1..MaxCatalogItems |->
        IF i <= Len(SearchLetters)
        THEN RawItem(<<"A", "b", SearchLetters[i]>>, <<"a", "b", SearchLetters[i]>>)
        ELSE ItemAb]

SearchQueries ==
    { << >>, <<"a", "b">>, <<"A", "B">>, <<"a", "b", "d">>, <<"b", "e">>,
      <<"z">> }

SearchPayloads(url) ==
    IF url = ItemsUrl THEN SearchCatalog ELSE <<RawOrder("ingame", "buy", 40)>>

TypeQuery ==
    /\ calls = << >>
    /\ \E text \in SearchQueries : UserAct(HandleSearchInput(St, text))

PressSearch == calls = << >> /\ UserAct(HandleSearch(St))

SearchResponseOk ==
    \E c \in DOMAIN calls : ResponseOk(c, SearchPayloads(calls[c].url))

SearchResponseFail == \E c \in DOMAIN calls : ResponseFail(c)

NextSearch ==
    \/ TypeQuery
    \/ PressSearch
    \/ SearchResponseOk
    \/ SearchResponseFail

SpecSearch == Init /\ [][NextSearch]_vars

\* the step runs loadItemData(selectedItem) from handleSearch
SearchSelects ==
    \/ lastRet'.owner = "loadItemData"
    \/ calls' # << >> /\ calls'[Len(calls')].owner = "loadItemData"

ExactIn(items, query) ==
    { i \in DOMAIN items :
        \/ Lower(items[i].item_name) = Lower(query)
        \/ Lower(items[i].url_name) = Lower(query) }

ContainingIn(items, query) ==
    { i \in DOMAIN items :
        \/ Includes(Lower(items[i].item_name), Lower(query))
        \/ Includes(Lower(items[i].url_name), Lower(query)) }

\* C33: handleSearch with a non-empty query selects the item of the catalog
\* whose item_name or url_name equals the query, letter case aside,
\* whenever the catalog has one, and otherwise the first item whose name
\* contains the query.
C33_SelectsExactMatch ==
    [][SearchSelects =>
        (LET query == Trim(searchInput)
             exact == ExactIn(SearchCatalog, query)
             containing == ContainingIn(SearchCatalog, query)
         IN /\ IsSome(currentItem')
            /\ IF exact # {}
               THEN Val(currentItem') \in { SearchCatalog[i] : i \in exact }
               ELSE /\ containing # {}
                    /\ Val(currentItem') = SearchCatalog[Min(containing)])
      ]_vars


\* the retry button of the error panel, or File > Refresh Data
PressRetry == calls = << >> /\ UserAct(HandleRetry(St))

\* the search specification with retries
NextPanels ==
    \/ NextSearch
    \/ PressRetry

SpecPanels == Init /\ [][NextPanels]_vars

ShownPanels == { p \in {"loading", "results", "error"} : panels[p] }

\* C34: whatever searches, item loads, retries and failures have happened,
\* at most one of the loading, results and error panels is shown, and the
\* welcome message is shown only when none of the three is.
C34_PanelsExclusive ==
    /\ Cardinality(ShownPanels) <= 1
    /\ panels.welcome => ShownPanels = {}

\* the error panel is shown after results of an earlier load were shown
C34_Witness ==
    /\ panels.error
    /\ IsSome(currentOrders)
    /\ ~panels.results


\* a fetch made for handleSearch or loadItemData settles, and the code
\* after its await runs
SettlesFor(owner) ==
    \E c \in DOMAIN calls :
        /\ calls[c].owner = owner
        /\ \/ ResponseOk(c, SearchPayloads(calls[c].url))
           \/ ResponseFail(c)

\* a fetch made for owner is in flight: SettlesFor(owner) can happen
PendingFor(owner) == \E c \in DOMAIN calls : calls[c].owner = owner

\* weak fairness of SettlesFor(owner) by its definition, always eventually
\* disabled or always eventually taken: the action is enabled exactly when a
\* call of that owner is in flight, since settling it takes it off calls
Settling(owner) ==
    \/ []<>(~PendingFor(owner))
    \/ []<><<SettlesFor(owner)>>_vars

\* the search specification with every fetch of a search and of an item
\* load settling in the end, after which the event loop runs the code that
\* awaits it
SpecSearchLive ==
    /\ Init
    /\ [][NextSearch]_vars
    /\ Settling("handleSearch")
    /\ Settling("loadItemData")

\* C35: a search or an item load that shows the loading panel replaces it,
\* once its fetch settles, by the results panel or by the error panel,
\* whether the fetch succeeds, fails or finds no matching item.
C35_LoadingIsReplaced == panels.loading ~> (panels.results \/ panels.error)

\* a search whose fetch succeeded without a matching item ended in the
\* error panel
C35_Witness ==
    /\ panels.error
    /\ errorMessage = MsgNoItems
    /\ calls = << >>
    /\ searchInput = <<"z">>
    /\ ItemsUrl \in DOMAIN cache["api"]


\* the step settles a loadItemData whose getItemOrders threw; lastRet'.url
\* is the orders URL of the item that load was asked for
ItemLoadFails ==
    /\ lastRet'.owner = "loadItemData"
    /\ lastRet'.kind = "throw"

\* handleRetry() in state s loads the item whose orders are at url
RetryLoads(s, url) ==
    LET r == HandleRetry(s)
    IN \/ r.lastRet.owner = "loadItemData" /\ r.lastRet.url = url
       \/ /\ Len(r.calls) = Len(s.calls) + 1
          /\ r.calls[Len(r.calls)].owner = "loadItemData"
          /\ r.calls[Len(r.calls)].url = url

\* C36: an item load whose fetch fails leaves recentSearches and the stored
\* list as they were, and leaves currentItem at the item it was asked for,
\* so that a retry right after it loads that item again.
C36_FailedLoadKeepsRetryTarget ==
    [][ItemLoadFails =>
        (/\ recentSearches' = recentSearches
         /\ localStorage' = localStorage
         /\ IsSome(currentItem')
         /\ OrdersUrl(Val(currentItem').url_name) = lastRet'.url
         /\ RetryLoads(St', lastRet'.url))
      ]_vars


FilterCycle == <<"all", "sell", "buy">>

FilterAfter(filter) ==
    LET i == CHOOSE j \in DOMAIN FilterCycle : FilterCycle[j] = filter
    IN FilterCycle[(i % Len(FilterCycle)) + 1]

\* C37: the order filter is always one of all, sell and buy; a
\* handleFilterToggle moves it one place along all -> sell -> buy -> all,
\* nothing else changes it, and three toggles bring it back.
C37_FilterCycle ==
    /\ [](orderFilter \in {"all", "sell", "buy"})
    /\ [](HandleFilterToggle(St).orderFilter = FilterAfter(orderFilter))
    /\ [](HandleFilterToggle(HandleFilterToggle(HandleFilterToggle(St))).orderFilter
            = orderFilter)
    /\ [][orderFilter' # orderFilter => orderFilter' = FilterAfter(orderFilter)]_vars

\* two toggles after a load: the table shows the buy side alone
C37_Witness ==
    /\ orderFilter = "buy"
    /\ IsSome(currentOrders)


(***************************************************************************)
(* Reward texts.  A string is the sequence of its characters.              *)
(***************************************************************************)
LowerLetters ==
    <<"a", "b", "c", "d", "e", "f", "g", "h", "i", "j", "k", "l", "m",
       "n", "o", "p", "q", "r", "s", "t", "u", "v", "w", "x", "y", "z">>
UpperLetters ==
    <<"A", "B", "C", "D", "E", "F", "G", "H", "I", "J", "K", "L", "M",
       "N", "O", "P", "Q", "R", "S", "T", "U", "V", "W", "X", "Y", "Z">>

\* String.prototype.toLowerCase and toUpperCase on one character
LowerChar(ch) ==
    IF \E i \in DOMAIN UpperLetters : UpperLetters[i] = ch
    THEN LowerLetters[CHOOSE i \in DOMAIN UpperLetters : UpperLetters[i] = ch]
    ELSE ch

UpperChar(ch) ==
    IF \E i \in DOMAIN LowerLetters : LowerLetters[i] = ch
    THEN UpperLetters[CHOOSE i \in DOMAIN LowerLetters : LowerLetters[i] = ch]
    ELSE ch

LowerCase(str) == [i \in DOMAIN str |-> LowerChar(str[i])]

\* rewardMappings, in the order of Object.entries
RewardMappings ==
    << [key |-> <<"m", "u", "t", "a", "g", "e", "n">>,
        value |-> <<"M", "u", "t", "a", "g", "e", "n", " ", "M", "a", "s", "s">>],
       [key |-> <<"d", "e", "t", "o", "n", "i", "t", "e">>,
        value |-> <<"D", "e", "t", "o", "n", "i", "t", "e", " ", "I", "n", "j", "e", "c", "t", "o", "r">>],
       [key |-> <<"f", "i", "e", "l", "d", "r", "o", "n">>,
        value |-> <<"F", "i", "e", "l", "d", "r", "o", "n">>],
       [key |-> <<"c", "a", "t", "a", "l", "y", "s", "t">>,
        value |-> <<"O", "r", "o", "k", "i", "n", " ", "C", "a", "t", "a", "l", "y", "s", "t">>],
       [key |-> <<"r", "e", "a", "c", "t", "o", "r">>,
        value |-> <<"O", "r", "o", "k", "i", "n", " ", "R", "e", "a", "c", "t", "o", "r">>],
       [key |-> <<"f", "o", "r", "m", "a">>,
        value |-> <<"F", "o", "r", "m", "a">>],
       [key |-> <<"e", "x", "i", "l", "u", "s">>,
        value |-> <<"E", "x", "i", "l", "u", "s", " ", "A", "d", "a", "p", "t", "e", "r">>],
       [key |-> <<"u", "m", "b", "r", "a", "l">>,
        value |-> <<"U", "m", "b", "r", "a", "l", " ", "F", "o", "r", "m", "a">>] >>

\* the last position of the run of digits that starts at position a
RECURSIVE DigitsEnd(_, _)
DigitsEnd(str, a) ==
    IF a <= Len(str) /\ IsDigit(str[a]) THEN DigitsEnd(str, a + 1) ELSE a - 1

\* the last position of the run of spaces that starts at position a
RECURSIVE SpacesEnd(_, _)
SpacesEnd(str, a) ==
    IF a <= Len(str) /\ str[a] = " " THEN SpacesEnd(str, a + 1) ELSE a - 1

\* cleaned.match(new RegExp(`(\\d+)\\s*${key}`, 'i')): the positions at which
\* a match starts
NumberedKeyMatches(cleaned, key) ==
    { a \in DOMAIN cleaned :
        /\ IsDigit(cleaned[a])
        /\ LET c == SpacesEnd(cleaned, DigitsEnd(cleaned, a) + 1)
           IN /\ c + Len(key) <= Len(cleaned)
              /\ LowerCase(SubSeq(cleaned, c + 1, c + Len(key))) = key }

\* the mapped name for the first key of rewardMappings that lowerStr
\* includes, after the number that precedes the key if there is one
MapContainedKey(cleaned, lowerStr) ==
    LET i == Min({ k \in DOMAIN RewardMappings :
                     Includes(lowerStr, RewardMappings[k].key) })
        key == RewardMappings[i].key
        value == RewardMappings[i].value
        match == NumberedKeyMatches(cleaned, key)
    IN IF match # {}
       THEN SubSeq(cleaned, Min(match), DigitsEnd(cleaned, Min(match)))
                \o <<" ">> \o value
       ELSE value

\* split(' '), first letter of each word to upper case and the rest to lower
\* case, join(' ')
CapitalizeWords(str) ==
    [i \in DOMAIN str |->
        IF i = 1 \/ str[i - 1] = " " THEN UpperChar(str[i])
        ELSE LowerChar(str[i])]

\* replace(/(\\d+)x\\s*(.+)/, '$1x $2')
SpaceAfterCount(str) ==
    LET starts == { a \in DOMAIN str :
                      /\ IsDigit(str[a])
                      /\ DigitsEnd(str, a) + 2 <= Len(str)
                      /\ str[DigitsEnd(str, a) + 1] = "x" }
        a == Min(starts)
        x == DigitsEnd(str, a) + 1
        c == SpacesEnd(str, x + 1)
        rest == IF c < Len(str) THEN SubSeq(str, c + 1, Len(str)) ELSE <<" ">>
    IN IF starts = {} THEN str
       ELSE SubSeq(str, 1, x) \o <<" ">> \o rest

Blueprint == <<"B", "l", "u", "e", "p", "r", "i", "n", "t">>

\* replace(/Blueprint/g, 'BP')
RECURSIVE ShortenBlueprint(_)
ShortenBlueprint(str) ==
    IF Len(str) < Len(Blueprint) THEN str
    ELSE IF SubSeq(str, 1, Len(Blueprint)) = Blueprint
    THEN <<"B", "P">> \o ShortenBlueprint(SubSeq(str, Len(Blueprint) + 1, Len(str)))
    ELSE <<str[1]>> \o ShortenBlueprint(Tail(str))

\* replace(/\\s+/g, ' ')
RECURSIVE SingleSpaces(_)
SingleSpaces(str) ==
    IF Len(str) < 2 THEN str
    ELSE IF str[1] = " " /\ str[2] = " " THEN SingleSpaces(Tail(str))
    ELSE <<str[1]>> \o SingleSpaces(Tail(str))

\* cleanRewardString(str) for a string
CleanRewardString(str) ==
    LET trimmed == Trim(str)
        lowerStr == LowerCase(trimmed)
        cleaned ==
            IF \E k \in DOMAIN RewardMappings : RewardMappings[k].key = lowerStr
            THEN RewardMappings[CHOOSE k \in DOMAIN RewardMappings :
                                   RewardMappings[k].key = lowerStr].value
            ELSE IF \E k \in DOMAIN RewardMappings :
                       Includes(lowerStr, RewardMappings[k].key)
            THEN MapContainedKey(trimmed, lowerStr)
            ELSE CapitalizeWords(trimmed)
    IN Trim(SingleSpaces(ShortenBlueprint(SpaceAfterCount(cleaned))))


\* formatInvasionReward(reward) for a reward that is a string
FormatInvasionReward(reward) ==
    IF Len(reward) = 0 THEN <<"N", "o", " ", "r", "e", "w", "a", "r", "d">> ELSE CleanRewardString(reward)

(***************************************************************************)
(* The reward specification: the invasion details show the text of a       *)
(* reward, which is a count, a name and a suffix put together, or is the   *)
(* text shown before, received again.                                      *)
(***************************************************************************)
RewardCounts == { << >>, <<"3", " ">>, <<"3", "x">>, <<"1", "2", "x", " ">> }

CanonicalNames == { RewardMappings[k].value : k \in DOMAIN RewardMappings }

RewardNames ==
    { RewardMappings[k].key : k \in DOMAIN RewardMappings }
        \cup CanonicalNames
        \cup { <<"n", "i", "t", "a", "i", "n", " ", "e", "x", "t", "r", "a", "c", "t">>,
               <<"a", "s", "h", " ", " ", "p", "r", "i", "m", "e">> }

RewardSuffixes == { << >>, <<" ", "b", "l", "u", "e", "p", "r", "i", "n", "t">>, <<" ", "B", "l", "u", "e", "p", "r", "i", "n", "t">> }

RewardTokens ==
    { count \o name \o suffix :
        count \in RewardCounts, name \in RewardNames, suffix \in RewardSuffixes }

\* the invasion details show reward
ShowReward(s, reward) ==
    [s EXCEPT !.rewardText =
        Some([reward |-> reward, text |-> FormatInvasionReward(reward)])]

ReceiveReward == \E reward \in RewardTokens : Commit(ShowReward(St, reward))

ReceiveShownReward ==
    /\ IsSome(rewardText)
    /\ Commit(ShowReward(St, Val(rewardText).text))

NextReward ==
    \/ ReceiveReward
    \/ ReceiveShownReward

SpecReward == Init /\ [][NextReward]_vars

\* C38: the text shown for a reward is left as it is by cleanRewardString,
\* and a reward that is one of the full names of rewardMappings is shown
\* as that name.
C38_CleanIsIdempotent ==
    IsSome(rewardText) =>
        /\ CleanRewardString(Val(rewardText).text) = Val(rewardText).text
        /\ Val(rewardText).reward \in CanonicalNames
              => Val(rewardText).text = Val(rewardText).reward


(***************************************************************************)
(* Countdown texts                                                         *)
(***************************************************************************)
\* the string formatTimeFromSeconds(seconds) returns, from its parts
TimeString(time) ==
    IF time.label = "Expired" THEN <<"E", "x", "p", "i", "r", "e", "d">>
    ELSE LET hours == IF time.h > 0 THEN Numeral(time.h) \o <<"h", " ">>
                      ELSE << >>
             minutes == IF time.m > 0 THEN Numeral(time.m) \o <<"m", " ">>
                        ELSE << >>
             result == hours \o minutes
             secs == IF time.s > 0 \/ result = << >>
                     THEN Numeral(time.s) \o <<"s">> ELSE << >>
         IN Trim(result \o secs)

\* the number a run of digits stands for
RECURSIVE DigitsValue(_)
DigitsValue(digits) ==
    IF digits = << >> THEN 0
    ELSE 10 * DigitsValue(SubSeq(digits, 1, Len(digits) - 1))
           + DigitValue(digits[Len(digits)])

\* variant of the switch in parseTimeString: there is no case 'h'
UnitSeconds_NoHours(unit) ==
    CASE unit = "d" -> 24 * 60 * 60
      [] unit = "h" -> 0
      [] unit = "m" -> 60
      [] unit = "s" -> 1

\* the switch in parseTimeString
UnitSeconds(unit) ==
    CASE unit = "d" -> 24 * 60 * 60
      [] unit = "h" -> 60 * 60
      [] unit = "m" -> 60
      [] unit = "s" -> 1

\* the loop over timeRegex.exec(timeStr) in parseTimeString, from position
\* i of timeStr on
RECURSIVE SumMatches(_, _)
SumMatches(timeStr, i) ==
    IF i > Len(timeStr) THEN 0
    ELSE IF ~IsDigit(timeStr[i]) THEN SumMatches(timeStr, i + 1)
    ELSE LET b == DigitsEnd(timeStr, i)
         IN IF b + 1 <= Len(timeStr) /\ timeStr[b + 1] \in {"d", "h", "m", "s"}
            THEN DigitsValue(SubSeq(timeStr, i, b)) * UnitSeconds(timeStr[b + 1])
                   + SumMatches(timeStr, b + 2)
            ELSE SumMatches(timeStr, b + 1)

\* parseTimeString(timeStr)
ParseTimeString(timeStr) ==
    IF timeStr = << >> THEN 0 ELSE SumMatches(timeStr, 1)

(***************************************************************************)
(* The countdown specification: a timer element shows the text of a number *)
(* of seconds, and the text is read back.                                  *)
(***************************************************************************)
MaxHours == 25          \* hours of the longest countdown

TimerSeconds ==
    { (h * 3600) + (m * 60) + s :
        h \in 0..MaxHours, m \in {0, 1, 59}, s \in {0, 1, 59} }

\* timerElement.textContent = this.formatTimeFromSeconds(seconds)
ShowTimerText(s, seconds) ==
    [s EXCEPT !.timerText =
        Some([seconds |-> seconds,
              text |-> TimeString(FormatTimeFromSeconds(seconds)),
              parsed |-> Nothing])]

\* parseTimeString on the text of the element
ReadTimerText(s) ==
    LET shown == Val(s.timerText)
    IN [s EXCEPT !.timerText =
           Some([shown EXCEPT !.parsed = Some(ParseTimeString(shown.text))])]

WriteTimer == \E seconds \in TimerSeconds : Commit(ShowTimerText(St, seconds))

ReadTimer ==
    /\ IsSome(timerText)
    /\ Val(timerText).parsed = Nothing
    /\ Commit(ReadTimerText(St))

NextTimes ==
    \/ WriteTimer
    \/ ReadTimer

SpecTimes == Init /\ [][NextTimes]_vars

\* C39: the text formatTimeFromSeconds gives for a number of seconds that
\* is not negative is read back by parseTimeString as that number; 0 is
\* shown as Expired and read back as 0.
C39_TimeRoundTrip ==
    IsSome(timerText) =>
        /\ Val(timerText).seconds = 0 => Val(timerText).text = <<"E", "x", "p", "i", "r", "e", "d">>
        /\ IsSome(Val(timerText).parsed)
              => Val(Val(timerText).parsed) = Val(timerText).seconds

\* a countdown of more than a day, with hours, minutes and seconds in its
\* text, has been read back
C39_Witness ==
    /\ IsSome(timerText)
    /\ IsSome(Val(timerText).parsed)
    /\ Val(timerText).seconds = (25 * 3600) + (59 * 60) + 59
    /\ Val(timerText).text = <<"2", "5", "h", " ", "5", "9", "m", " ", "5", "9", "s">>

====
